---- MODULE Spec2Model ----
(***************************************************************************)
(* Scene-graph nodes (scene/scene_node.rs, scene/planar_scene_node.rs) and *)
(* the CPU/GPU dual-resident buffer (resource/gpu_vector.rs).              *)
(*                                                                         *)
(* A node is an Rc<RefCell<SceneNodeData>>.  The model keeps one record    *)
(* per node identity, the set of identities the application still holds a  *)
(* handle to, and the RefCell borrows taken inside each operation.         *)
(***************************************************************************)
EXTENDS Integers, Sequences, FiniteSets, TLC

\* ------------------------------------------------------------------ bounds
NumNodes == 3      \* node identities available to SceneNode::new
MaxOps == 5        \* node operations after the constructions, per behaviour
MaxLen == 2        \* longest CPU array handed to a GPUVec
MaxWrites == 2     \* data_mut() accesses per behaviour
MaxRequests == 2   \* draw_line / draw_point requests pending at a time
MaxObjects == 2    \* nodes built by the constructors of SceneNode
MaxMeshes == 6     \* Mesh values allocated: the four built-in ones and two more
MaxResOps == 5     \* resource operations in one behaviour
MaxEvents == 3     \* window events arriving in one behaviour
MaxFaces == 2      \* faces of the mesh
MaxBinds == 3      \* bind_edges calls in one behaviour

Nodes == 1..NumNodes
None == 0

\* ------------------------------------------------- Isometry3 / Vector3
\* An isometry is a rotation followed by a translation.  Rotations are the
\* quarter turns about the z axis (UnitQuaternion restricted to 4 values),
\* translations are integer vectors: an exact, non-commutative sub-group of
\* the isometries nalgebra computes with.
VAdd(a, b) == <<a[1] + b[1], a[2] + b[2], a[3] + b[3]>>

Rotate(r, v) ==
    CASE r = 0 -> v
      [] r = 1 -> <<0 - v[2], v[1], v[3]>>
      [] r = 2 -> <<0 - v[1], 0 - v[2], v[3]>>
      [] r = 3 -> <<v[2], 0 - v[1], v[3]>>

Iso(r, t) == [rot |-> r, tr |-> t]

One == Iso(0, <<0, 0, 0>>)

\* nalgebra: (a * b) applies b first, then a.
Mul(a, b) == Iso((a.rot + b.rot) % 4, VAdd(a.tr, Rotate(a.rot, b.tr)))

\* Isometry3::inverse: (a.inverse() * a) is the identity
Inverse(a) == Iso((4 - a.rot) % 4, Rotate((4 - a.rot) % 4, <<0 - a.tr[1], 0 - a.tr[2], 0 - a.tr[3]>>))

component_mul(a, b) == <<a[1] * b[1], a[2] * b[2], a[3] * b[3]>>

UnitScale == <<1, 1, 1>>

\* Arguments the application passes to constructors and mutators.
InputTransforms == {Iso(0, <<1, 0, 0>>), Iso(1, <<0, 0, 0>>)}
InputScales == {<<2, 3, 1>>}

\* ------------------------------------------------------------- state
VARIABLES
    planar,     \* TRUE: PlanarSceneNode (raw parent pointer); FALSE: SceneNode (Weak)
    mem,        \* node identity -> "unborn" | "live" | "freed"
    handle,     \* node identity -> the application holds an Rc to it
    node,       \* node identity -> SceneNodeData
    nops,       \* node operations performed so far
    last,       \* the last operation, its arguments and its returned value
    panicked,   \* the program aborted in the last operation
    ub,         \* a dangling parent pointer was dereferenced (planar only)
    trash, len, buffer, data,   \* GPUVec fields
    bound,      \* the context's bound buffer is this vector's buffer
    nwrites,    \* data_mut() accesses so far
    glast,      \* the last GPUVec operation
    calls,      \* buffer calls the last GPUVec operation issued on the context
    drawn,      \* nodes whose Object was rendered by the last traversal, in order
    mpc,        \* position inside Material::render
    mobj,       \* ObjectData of the object being rendered
    attribs,    \* vertex attribute arrays enabled on the context
    cull,       \* CULL_FACE is enabled on the context
    abuf, ebuf, \* buffers bound to ARRAY_BUFFER and ELEMENT_ARRAY_BUFFER
    draws,      \* draw submissions of the render call in progress (or the last)
    polymode,   \* the platform implements polygon_mode
    fpc,        \* position inside Window::render_single_frame
    fpass,      \* camera pass being rendered
    npasses,    \* camera.num_passes()
    lines,      \* draw_line requests held by the LineRenderer
    points,     \* draw_point requests held by the PointRenderer
    flog,       \* what the frame in progress did so far, in order
    evq,        \* a Close event (or the release of Escape) waits in the event queue
    should_close,   \* Window::should_close
    fret,       \* what the last render call returned ("none" before the first)
    stepped,    \* State::step ran after the last frame
    with_state, \* the frames are driven by render_loop / render_with_state
    meshes,     \* MeshManager::meshes: name -> Mesh (NoMesh when not registered)
    materials,  \* MaterialManager::materials: the registered names
    textures,   \* TextureManager::textures: the registered names
    nmesh,      \* how many Mesh values were allocated (they are 1..nmesh)
    coords,     \* Mesh::coords of every Mesh: the fields of its GPUVec
    objs,       \* the Objects of the nodes built so far, in creation order
    rops,       \* resource operations performed
    rlast,      \* the last resource operation and what it returned
    chan,       \* the events waiting in the window's channel, oldest first
    unhandled,  \* Window::unhandled_events
    handled,    \* the events Window::handle_event was called with, in call order
    inhibited,  \* the events the application dropped with inhibited = true
    requeued,   \* the events the application dropped un-inhibited
    delivered,  \* the Camera::handle_event calls made: event and receiver
    nextev,     \* the identity of the next event to arrive
    cams,       \* which cameras the caller supplied to the last frame
    mcoords,    \* Mesh::coords
    mfaces,     \* Mesh::faces, each face three vertex indices
    mnormals,   \* Mesh::normals
    medges,     \* Mesh::edges
    ebuilt,     \* how many times an edge buffer was built for the mesh
    ebinds,     \* how many times bind_edges was called on the mesh
    edraw       \* the last wireframe draw: indices asked for, indices stored

scene_vars == <<planar, mem, handle, node, nops, last, panicked, ub, drawn>>
gpu_vars == <<trash, len, buffer, data, bound, nwrites, glast, calls>>
mat_vars == <<mpc, mobj, attribs, cull, abuf, ebuf, draws, polymode>>
mesh_vars == <<mcoords, mfaces, mnormals, medges, ebuilt, ebinds, edraw>>
ev_vars == <<chan, unhandled, handled, inhibited, requeued, delivered, nextev, cams>>
res_vars == <<meshes, materials, textures, nmesh, coords, objs, rops, rlast>>
close_vars == <<evq, should_close, fret, stepped, with_state>>
frame_vars == <<fpc, fpass, npasses, lines, points, flog,
                evq, should_close, fret, stepped, with_state>>
vars == <<planar, mem, handle, node, nops, last, panicked, ub, drawn,
          trash, len, buffer, data, bound, nwrites, glast, calls,
          mpc, mobj, attribs, cull, abuf, ebuf, draws, polymode,
          fpc, fpass, npasses, lines, points, flog,
          evq, should_close, fret, stepped, with_state,
          meshes, materials, textures, nmesh, coords, objs, rops, rlast,
          chan, unhandled, handled, inhibited, requeued, delivered, nextev, cams,
          mcoords, mfaces, mnormals, medges, ebuilt, ebinds, edraw>>

\* SceneNode::new: world caches start as copies of the local values, dirty.
NewData(t, s) ==
    [ local_scale |-> s,
      local_transform |-> t,
      world_scale |-> s,
      world_transform |-> t,
      visible |-> TRUE,
      up_to_date |-> FALSE,
      children |-> <<>>,
      object |-> FALSE,
      parent |-> None ]

\* SceneNode::new(.., Some(object)): add_cube, add_sphere, add_mesh, ...
NewObject(t, s) == [NewData(t, s) EXCEPT !.object = TRUE]

NoOp == [op |-> "none", n |-> None, c |-> None, ret |-> One, arg |-> One, inv |-> <<>>]

\* An operation as the application sees it: the method, the node, the child it
\* names and the value it returns; a mutator also has an argument (arg), and
\* inv lists the nodes invalidate() was invoked on, in call order.
Op(o, n, c, r) == [op |-> o, n |-> n, c |-> c, ret |-> r, arg |-> One, inv |-> <<>>]

\* Option<T>: None is the empty sequence, Some(x) the one-element sequence.
Nothing == <<>>
Some(x) == <<x>>
is_some(o) == o # Nothing
unwrap(o) == o[1]

\* ------------------------------------------------ helpers on the tree
is_root(nd, n) == nd[n].parent = None

\* Weak::upgrade succeeds / the raw pointer still points to a node.
ParentAlive(nd, n) == nd[n].parent # None /\ mem[nd[n].parent] = "live"

Range(s) == {s[i] : i \in 1..Len(s)}

\* Vec::swap_remove(i): the last element takes the place of element i.
swap_remove(s, i) ==
    IF i = Len(s) THEN SubSeq(s, 1, Len(s) - 1)
    ELSE [SubSeq(s, 1, Len(s) - 1) EXCEPT ![i] = s[Len(s)]]

\* iter().rposition(): the largest index holding o, 0 when absent.
rposition(s, o) ==
    IF o \in Range(s) THEN CHOOSE i \in 1..Len(s) : s[i] = o /\ \A j \in (i + 1)..Len(s) : s[j] # o
    ELSE 0

\* SceneNodeData::remove
remove(nd, p, o) ==
    LET i == rposition(nd[p].children, o)
    IN  IF i = 0 THEN nd ELSE [nd EXCEPT ![p].children = swap_remove(nd[p].children, i)]

Res(nd, st) == [nd |-> nd, st |-> st]

\* ----------------------------------------------- SceneNodeData::invalidate
\* B is the set of nodes whose RefCell is borrowed while the call runs:
\* c.data_mut() on a member of B panics (BorrowMutError).
RECURSIVE invalidate_log(_, _, _, _)
RECURSIVE invalidate_children(_, _, _, _)
\* the loop over the children without its test of up_to_date
invalidate_children_always_recursing(r, n, i, B) ==
    IF r.st # "ok" \/ i > Len(r.nd[n].children) THEN r
    ELSE LET c == r.nd[n].children[i]
         IN  IF c \in B THEN [r EXCEPT !.st = "panic"]
             ELSE invalidate_children(invalidate_log(r.nd, c, B \cup {c}, r.inv), n, i + 1, B)

invalidate_children(r, n, i, B) ==
    IF r.st # "ok" \/ i > Len(r.nd[n].children) THEN r
    ELSE LET c == r.nd[n].children[i]
         IN  IF c \in B THEN [r EXCEPT !.st = "panic"]
             ELSE IF r.nd[c].up_to_date
                  THEN invalidate_children(invalidate_log(r.nd, c, B \cup {c}, r.inv), n, i + 1, B)
                  ELSE invalidate_children(r, n, i + 1, B)

\* invalidate() on n, the invocations so far being inv
invalidate_log(nd, n, B, inv) ==
    invalidate_children([nd |-> [nd EXCEPT ![n].up_to_date = FALSE], st |-> "ok",
                         inv |-> Append(inv, n)], n, 1, B)

invalidate(nd, n, B) == invalidate_log(nd, n, B, <<>>)

\* --------------------------------------------------- SceneNodeData::update
\* The 3D node upgrades its Weak parent and falls back to the root case when
\* the parent is gone; the planar node dereferences its raw pointer, which is
\* undefined once the parent was freed ("ub").
RECURSIVE update(_, _, _)
update(nd, n, B) ==
    IF nd[n].up_to_date THEN Res(nd, "ok")
    ELSE LET p == nd[n].parent
             asroot == [nd EXCEPT ![n].world_transform = nd[n].local_transform,
                                  ![n].world_scale = nd[n].local_scale,
                                  ![n].up_to_date = TRUE]
         IN  IF p = None THEN Res(asroot, "ok")
             ELSE IF mem[p] # "live"
                  THEN (IF planar THEN Res(nd, "ub") ELSE Res(asroot, "ok"))
             ELSE IF p \in B THEN Res(nd, "panic")
             ELSE LET r == update(nd, p, B \cup {p})
                  IN  IF r.st # "ok" THEN r
                      ELSE Res([r.nd EXCEPT
                                  ![n].world_transform =
                                      Mul(r.nd[n].local_transform, r.nd[p].world_transform),
                                  ![n].world_scale =
                                      component_mul(r.nd[n].local_scale, r.nd[p].local_scale),
                                  ![n].up_to_date = TRUE], "ok")

\* ------------------------------------------------ SceneNodeData::do_render
\* The traversal's outcome: the node data, ok / panic, and the nodes whose
\* Object::render was called, in call order.
RRes(nd, st, dr) == [nd |-> nd, st |-> st, drawn |-> dr]

RECURSIVE do_render(_, _, _, _, _, _)
RECURSIVE do_render_children(_, _, _, _)
\* the loop over the children without its test of bc.visible
do_render_children_ignoring_visible(r, n, i, B) ==
    IF r.st # "ok" \/ i > Len(r.nd[n].children) THEN r
    ELSE LET c == r.nd[n].children[i]
         IN  IF c \in B THEN RRes(r.nd, "panic", r.drawn)
             ELSE do_render_children(
                      do_render(r.nd, c, r.nd[n].world_transform,
                                r.nd[n].world_scale, B \cup {c}, r.drawn),
                      n, i + 1, B)

do_render_children(r, n, i, B) ==
    IF r.st # "ok" \/ i > Len(r.nd[n].children) THEN r
    ELSE LET c == r.nd[n].children[i]
         IN  IF c \in B THEN RRes(r.nd, "panic", r.drawn)
             ELSE IF r.nd[c].visible
                  THEN do_render_children(
                           do_render(r.nd, c, r.nd[n].world_transform,
                                     r.nd[n].world_scale, B \cup {c}, r.drawn),
                           n, i + 1, B)
                  ELSE do_render_children(r, n, i + 1, B)

do_render(nd, n, transform, scale, B, dr) ==
    LET nd1 == IF nd[n].up_to_date THEN nd
               ELSE [nd EXCEPT ![n].up_to_date = TRUE,
                               ![n].world_transform = Mul(transform, nd[n].local_transform),
                               ![n].world_scale = component_mul(scale, nd[n].local_scale)]
        dr1 == IF nd[n].object THEN Append(dr, n) ELSE dr
    IN  do_render_children(RRes(nd1, "ok", dr1), n, 1, B)

\* SceneNodeData::render
render(nd, n) ==
    IF nd[n].visible THEN do_render(nd, n, One, UnitScale, {n}, <<>>)
    ELSE RRes(nd, "ok", <<>>)

\* ------------------------------------------------------- Rc ownership
\* A node stays allocated while the application holds a handle to it or a
\* live node holds it in its children.  Dropping the last owner frees the
\* node and with it its children vector.
Owners(nd, m, n) == {p \in Nodes : m[p] = "live" /\ n \in Range(nd[p].children)}

RECURSIVE FreedBy(_, _, _, _)
FreedBy(nd, h, F, k) ==
    IF k = 0 THEN F
    ELSE FreedBy(nd, h,
                 {n \in Nodes : mem[n] = "live" /\ ~h[n] /\ Owners(nd, mem, n) \subseteq F},
                 k - 1)

\* The program runs on until it aborts; every operation counts towards MaxOps.
Running == ~panicked /\ ~ub /\ nops < MaxOps /\ nops' = nops + 1

Usable(n) == mem[n] = "live" /\ handle[n]

\* ================================================================ actions
\* SceneNode::new / PlanarSceneNode::new: the next free identity.
New(t) ==
    /\ ~panicked /\ ~ub
    /\ \E n \in Nodes :
        /\ mem[n] = "unborn"
        /\ \A m \in 1..(n - 1) : mem[m] # "unborn"
        /\ mem' = [mem EXCEPT ![n] = "live"]
        /\ handle' = [handle EXCEPT ![n] = TRUE]
        /\ node' = [node EXCEPT ![n] = NewData(t, UnitScale)]
        /\ last' = Op("new", n, None, One)
    /\ UNCHANGED <<planar, nops, panicked, ub, drawn, gpu_vars, mat_vars, frame_vars, res_vars, ev_vars, mesh_vars>>

\* add_child without its assertion: a parented node is silently reparented.
AddChild_no_assert(p, c) ==
    /\ Running /\ Usable(p) /\ Usable(c)
    /\ node' = [node EXCEPT ![c].parent = p,
                             ![p].children = Append(@, c)]
    /\ last' = Op("add_child", p, c, One)
    /\ UNCHANGED <<planar, mem, handle, panicked, ub, drawn, gpu_vars, mat_vars, frame_vars, res_vars, ev_vars, mesh_vars>>

\* SceneNode::add_child / PlanarSceneNode::add_child, called on p with a
\* handle to c.  The assertion aborts before anything is written.
AddChild(p, c) ==
    /\ Running /\ Usable(p) /\ Usable(c)
    /\ IF ~is_root(node, c)
       THEN /\ panicked' = TRUE
            /\ UNCHANGED node
       ELSE /\ node' = [node EXCEPT ![c].parent = p,
                                    ![p].children = Append(@, c)]
            /\ UNCHANGED panicked
    /\ last' = Op("add_child", p, c, One)
    /\ UNCHANGED <<planar, mem, handle, ub, drawn, gpu_vars, mat_vars, frame_vars, res_vars, ev_vars, mesh_vars>>

\* SceneNode::unlink / PlanarSceneNode::unlink.  remove_from_parent borrows
\* the parent mutably while the node itself is borrowed.
Unlink(n) ==
    /\ Running /\ Usable(n)
    /\ LET p == node[n].parent
       IN  IF p = None
           THEN /\ UNCHANGED <<node, panicked, ub>>
                /\ last' = Op("unlink", n, None, One)
           ELSE IF mem[p] # "live"
           THEN IF planar
                THEN \* dangling raw pointer: the process may crash or go on
                     /\ ub' = TRUE
                     /\ \E crash \in BOOLEAN :
                          /\ panicked' = crash
                          /\ node' = IF crash THEN node ELSE [node EXCEPT ![n].parent = None]
                     /\ last' = Op("unlink", n, None, One)
                ELSE \* Weak::upgrade fails
                     /\ node' = [node EXCEPT ![n].parent = None]
                     /\ last' = Op("unlink", n, None, One)
                     /\ UNCHANGED <<panicked, ub>>
           ELSE IF p = n
           THEN /\ panicked' = TRUE
                /\ last' = Op("unlink", n, None, One)
                /\ UNCHANGED <<node, ub>>
           ELSE /\ node' = [remove(node, p, n) EXCEPT ![n].parent = None]
                /\ last' = Op("unlink", n, p, One)
                /\ UNCHANGED <<panicked, ub>>
    /\ UNCHANGED <<planar, mem, handle, drawn, gpu_vars, mat_vars, frame_vars, res_vars, ev_vars, mesh_vars>>

\* The application drops its handle; nodes left without an owner are freed,
\* which drops their children vectors in turn.
Drop(n) ==
    /\ Running /\ Usable(n)
    /\ LET h == [handle EXCEPT ![n] = FALSE]
           F == FreedBy(node, h, {}, NumNodes)
       IN  /\ handle' = h
           /\ mem' = [m \in Nodes |-> IF m \in F THEN "freed" ELSE mem[m]]
           /\ node' = [m \in Nodes |-> IF m \in F THEN NewData(One, UnitScale) ELSE node[m]]
    /\ last' = Op("drop", n, None, One)
    /\ UNCHANGED <<planar, panicked, ub, drawn, gpu_vars, mat_vars, frame_vars, res_vars, ev_vars, mesh_vars>>

\* A local mutation with argument a: invalidate() first, then the assignment
\* f(old local).
Mutate(name, n, a, r, nd2) ==
    /\ Running /\ Usable(n)
    /\ IF r.st = "ok"
       THEN node' = nd2 /\ UNCHANGED panicked
       ELSE node' = r.nd /\ panicked' = TRUE
    /\ last' = [Op(name, n, None, One) EXCEPT !.arg = a, !.inv = r.inv]
    /\ UNCHANGED <<planar, mem, handle, ub, drawn, gpu_vars, mat_vars, frame_vars, res_vars, ev_vars, mesh_vars>>

\* set_local_transformation; reorient assigns a computed isometry the same way
SetLocalTransformation(n, t) ==
    LET r == invalidate(node, n, {n})
    IN  Mutate("set_local_transformation", n, t, r,
               [r.nd EXCEPT ![n].local_transform = t])

\* an append that composes on the right, as prepend does
AppendTransformation_as_prepend(n, t) ==
    LET r == invalidate(node, n, {n})
    IN  Mutate("append_transformation", n, t, r,
               [r.nd EXCEPT ![n].local_transform = Mul(@, t)])

\* append_transformation, append_translation, append_rotation: t * local
AppendTransformation(n, t) ==
    LET r == invalidate(node, n, {n})
    IN  Mutate("append_transformation", n, t, r,
               [r.nd EXCEPT ![n].local_transform = Mul(t, @)])

\* prepend_to_local_transformation / _translation / _rotation: local *= t
PrependToLocalTransformation(n, t) ==
    LET r == invalidate(node, n, {n})
    IN  Mutate("prepend_to_local_transformation", n, t, r,
               [r.nd EXCEPT ![n].local_transform = Mul(@, t)])

SetLocalScale(n, s) ==
    LET r == invalidate(node, n, {n})
    IN  Mutate("set_local_scale", n, s, r, [r.nd EXCEPT ![n].local_scale = s])

\* world_transformation that also marks the node's children dirty
WorldTransformation_dirtying_children(n) ==
    /\ Running /\ Usable(n)
    /\ LET r == update(node, n, {n})
       IN  CASE r.st = "ok" ->
                 /\ node' = [m \in Nodes |->
                               IF m \in Range(r.nd[n].children)
                               THEN [r.nd[m] EXCEPT !.up_to_date = FALSE] ELSE r.nd[m]]
                 /\ last' = Op("world_transformation", n, None, r.nd[n].world_transform)
                 /\ UNCHANGED <<panicked, ub>>
             [] r.st = "panic" ->
                 /\ node' = r.nd
                 /\ panicked' = TRUE
                 /\ last' = Op("world_transformation", n, None, One)
                 /\ UNCHANGED ub
             [] r.st = "ub" ->
                 /\ ub' = TRUE
                 /\ \E crash \in BOOLEAN : panicked' = crash
                 /\ \E g \in {One} \cup InputTransforms :
                        last' = Op("world_transformation", n, None, g)
                 /\ UNCHANGED node
    /\ UNCHANGED <<planar, mem, handle, drawn, gpu_vars, mat_vars, frame_vars, res_vars, ev_vars, mesh_vars>>

\* node.data().world_transformation(): update(), then the cached value.
WorldTransformation(n) ==
    /\ Running /\ Usable(n)
    /\ LET r == update(node, n, {n})
       IN  CASE r.st = "ok" ->
                 /\ node' = r.nd
                 /\ last' = Op("world_transformation", n, None, r.nd[n].world_transform)
                 /\ UNCHANGED <<panicked, ub>>
             [] r.st = "panic" ->
                 /\ node' = r.nd
                 /\ panicked' = TRUE
                 /\ last' = Op("world_transformation", n, None, One)
                 /\ UNCHANGED ub
             [] r.st = "ub" ->
                 /\ ub' = TRUE
                 /\ \E crash \in BOOLEAN : panicked' = crash
                 /\ \E g \in {One} \cup InputTransforms :
                        last' = Op("world_transformation", n, None, g)
                 /\ UNCHANGED node
    /\ UNCHANGED <<planar, mem, handle, drawn, gpu_vars, mat_vars, frame_vars, res_vars, ev_vars, mesh_vars>>

\* node.data().inverse_world_transformation(): update(), then
\* self.local_transform.inverse()
InverseWorldTransformation(n) ==
    /\ Running /\ Usable(n)
    /\ LET r == update(node, n, {n})
       IN  CASE r.st = "ok" ->
                 /\ node' = r.nd
                 /\ last' = Op("inverse_world_transformation", n, None,
                               Inverse(r.nd[n].local_transform))
                 /\ UNCHANGED <<panicked, ub>>
             [] r.st = "panic" ->
                 /\ node' = r.nd
                 /\ panicked' = TRUE
                 /\ last' = Op("inverse_world_transformation", n, None, One)
                 /\ UNCHANGED ub
             [] r.st = "ub" ->
                 /\ ub' = TRUE
                 /\ \E crash \in BOOLEAN : panicked' = crash
                 /\ \E g \in {One} \cup InputTransforms :
                        last' = Op("inverse_world_transformation", n, None, g)
                 /\ UNCHANGED node
    /\ UNCHANGED <<planar, mem, handle, drawn, gpu_vars, mat_vars, frame_vars, res_vars, ev_vars, mesh_vars>>

\* SceneNode::render on the root of a tree (the window renders its scene root).
Render(n) ==
    /\ Running /\ Usable(n) /\ ~ParentAlive(node, n)
    /\ LET r == render(node, n)
       IN  /\ node' = r.nd
           /\ drawn' = r.drawn
           /\ panicked' = (r.st # "ok")
    /\ last' = Op("render", n, None, One)
    /\ UNCHANGED <<planar, mem, handle, ub, gpu_vars, mat_vars, frame_vars, res_vars, ev_vars, mesh_vars>>

\* set_visible: the flag alone, no invalidation
SetVisible(n, v) ==
    /\ Running /\ Usable(n)
    /\ node' = [node EXCEPT ![n].visible = v]
    /\ last' = Op("set_visible", n, None, One)
    /\ UNCHANGED <<planar, mem, handle, panicked, ub, drawn, gpu_vars, mat_vars, frame_vars, res_vars, ev_vars, mesh_vars>>

Unborn ==
    /\ mem = [n \in Nodes |-> "unborn"]
    /\ handle = [n \in Nodes |-> FALSE]
    /\ node = [n \in Nodes |-> NewData(One, UnitScale)]
    /\ nops = 0
    /\ last = NoOp
    /\ panicked = FALSE
    /\ ub = FALSE
    /\ drawn = <<>>

\* ObjectData as Object::new leaves it: surface on, no wireframe, no points,
\* back-face culling on.
DefaultObject == [surface |-> TRUE, lines |-> FALSE, points |-> FALSE, cull |-> TRUE]

\* No material is rendering; the context is in its initial state.
MatIdle ==
    /\ mpc = "inactive" /\ mobj = DefaultObject /\ attribs = {} /\ cull = FALSE
    /\ abuf = "none" /\ ebuf = "none" /\ draws = <<>> /\ polymode = TRUE

\* No frame is in progress and the overlay renderers hold no request.
FrameIdle ==
    /\ fpc = "idle" /\ fpass = 0 /\ npasses = 1 /\ lines = 0 /\ points = 0 /\ flog = <<>>
    /\ evq = FALSE /\ should_close = FALSE /\ fret = "none" /\ stepped = FALSE
    /\ with_state = FALSE

GpuIdle ==
    /\ trash = TRUE /\ len = 0 /\ buffer = Nothing /\ data = Some(<<>>)
    /\ bound = FALSE /\ nwrites = 0 /\ glast = "new" /\ calls = <<>>

\* ---- the resource registries of the window cache
NoMesh == 0

BuiltinGeoms == {"cube", "sphere", "cone", "cylinder"}

GeomNames == BuiltinGeoms \cup {"custom"}

BuiltinMaterials == {"object", "normals", "uvs"}

MaterialNames == BuiltinMaterials \cup {"user"}

TextureNames == {"user"}

\* MeshManager::new registers the four unit primitives.
BuiltinMesh(name) ==
    CASE name = "sphere" -> 1
      [] name = "cube" -> 2
      [] name = "cone" -> 3
      [] name = "cylinder" -> 4
      [] OTHER -> NoMesh

\* GPUVec::new(coords, ..) of Mesh::new: on RAM only, dirty
NewCoords(d) ==
    [trash |-> TRUE, len |-> Len(d), buffer |-> Nothing, data |-> Some(d),
     bound |-> FALSE, calls |-> <<>>]

\* The vertices a primitive starts with.
UnitCoords == <<1, 2>>

\* Object::new(mesh, 1, 1, 1, tex, mat): draw_surface, cull = true
NewObj(c, m, mat, tex) ==
    [ctor |-> c, mesh |-> m, material |-> mat, texture |-> tex, cull |-> TRUE]

\* MaterialManager::get_default / TextureManager::get_default
get_default_material == "object"

get_default_texture == "default"

\* MeshManager::get
mesh_get(name) == IF meshes[name] = NoMesh THEN Nothing ELSE Some(meshes[name])

\* a resource operation: its name, the object it went through (0: none), its
\* argument and its result
ROp(o, i, a, r) == [op |-> o, i |-> i, arg |-> a, ret |-> r]

\* The registries as WindowCache::populate leaves them, no node built yet.
ResIdle ==
    /\ meshes = [g \in GeomNames |-> BuiltinMesh(g)]
    /\ materials = BuiltinMaterials
    /\ textures = {}
    /\ nmesh = 4
    /\ coords = [m \in 1..MaxMeshes |-> NewCoords(UnitCoords)]
    /\ objs = <<>>
    /\ rops = 0
    /\ rlast = ROp("none", 0, "", "unit")

\* No event arrived yet, no frame was rendered.
EvIdle ==
    /\ chan = <<>> /\ unhandled = <<>> /\ handled = <<>> /\ inhibited = {}
    /\ requeued = {} /\ delivered = <<>> /\ nextev = 1
    /\ cams = [camera |-> FALSE, planar_camera |-> FALSE]

\* Mesh::edges is None
NoEdges == [some |-> FALSE, data |-> <<>>]

\* No mesh is under study.
MeshIdle ==
    /\ mcoords = <<>> /\ mfaces = <<>> /\ mnormals = <<>>
    /\ medges = NoEdges /\ ebuilt = 0 /\ ebinds = 0 /\ edraw = [count |-> 0, stored |-> 0]

\* ---- the node hierarchy of both node kinds: creation, linking, dropping,
\* and the upward walk of a query
TreeInit == planar \in BOOLEAN /\ Unborn /\ GpuIdle /\ ResIdle /\ EvIdle /\ MeshIdle /\ MatIdle /\ FrameIdle

TreeNext ==
    \/ New(One)
    \/ \E p, c \in Nodes : AddChild(p, c)
    \/ \E n \in Nodes : Unlink(n)
    \/ \E n \in Nodes : Drop(n)
    \/ \E n \in Nodes : WorldTransformation(n)

SpecTree == TreeInit /\ [][TreeNext]_vars

\* ---- the 3D node with its transforms: mutation, lazy resolution, rendering
\* Init: NumNodes nodes fresh from SceneNode::new_empty(), none linked yet.
Created ==
    /\ mem = [n \in Nodes |-> "live"]
    /\ handle = [n \in Nodes |-> TRUE]
    /\ node = [n \in Nodes |-> NewData(One, UnitScale)]
    /\ nops = 0
    /\ last = NoOp
    /\ panicked = FALSE
    /\ ub = FALSE
    /\ drawn = <<>>

SceneInit == planar = FALSE /\ Created /\ GpuIdle /\ ResIdle /\ EvIdle /\ MeshIdle /\ MatIdle /\ FrameIdle

SceneNext ==
    \/ \E p, c \in Nodes : AddChild(p, c)
    \/ \E n \in Nodes : Unlink(n)
    \/ \E n \in Nodes, t \in InputTransforms : SetLocalTransformation(n, t)
    \/ \E n \in Nodes, t \in InputTransforms : AppendTransformation(n, t)
    \/ \E n \in Nodes, t \in InputTransforms : PrependToLocalTransformation(n, t)
    \/ \E n \in Nodes, s \in InputScales : SetLocalScale(n, s)
    \/ \E n \in Nodes : WorldTransformation(n)
    \/ \E n \in Nodes : InverseWorldTransformation(n)
    \/ \E n \in Nodes : Render(n)

SpecScene == SceneInit /\ [][SceneNext]_vars

\* ---- the render traversal over nodes with and without an Object, some hidden
\* Init: SceneNode::new with an Object for the nodes of O, new_empty() for the
\* others; none linked yet.
RenderInit ==
    /\ planar = FALSE /\ GpuIdle /\ ResIdle /\ EvIdle /\ MeshIdle /\ MatIdle /\ FrameIdle
    /\ mem = [n \in Nodes |-> "live"]
    /\ handle = [n \in Nodes |-> TRUE]
    /\ nops = 0 /\ last = NoOp /\ panicked = FALSE /\ ub = FALSE /\ drawn = <<>>
    /\ \E O \in SUBSET Nodes :
          node = [n \in Nodes |-> IF n \in O THEN NewObject(One, UnitScale)
                                  ELSE NewData(One, UnitScale)]

RenderNext ==
    \/ \E p, c \in Nodes : AddChild(p, c)
    \/ \E n \in Nodes : Unlink(n)
    \/ \E n \in Nodes, v \in BOOLEAN : SetVisible(n, v)
    \/ \E n \in Nodes : SetLocalTransformation(n, Iso(0, <<1, 0, 0>>))
    \/ \E n \in Nodes : Render(n)

SpecRender == RenderInit /\ [][RenderNext]_vars

\* ---- apply_to_scene_nodes / apply_to_scene_nodes_mut with a callback
\* The callbacks an application passes: none of its own calls, a query of the
\* visited node, or its removal from the tree.
Callbacks == {"nothing", "world_transformation", "unlink"}

\* f(c) while the nodes of B are borrowed by the traversal (mutably when
\* mutable): c.data().world_transformation() borrows c and lets update()
\* borrow_mut the parent; c.unlink() borrows c mutably and lets
\* remove_from_parent borrow_mut the parent.
callback(nd, c, B, mutable, cb) ==
    CASE cb = "nothing" -> Res(nd, "ok")
      [] cb = "world_transformation" ->
            IF mutable /\ c \in B THEN Res(nd, "panic")
            ELSE update(nd, c, B \cup {c})
      [] cb = "unlink" ->
            LET p == nd[c].parent
            IN  IF c \in B THEN Res(nd, "panic")
                ELSE IF p = None THEN Res(nd, "ok")
                ELSE IF mem[p] # "live" THEN Res([nd EXCEPT ![c].parent = None], "ok")
                ELSE IF p \in B \cup {c} THEN Res(nd, "panic")
                ELSE Res([remove(nd, p, c) EXCEPT ![c].parent = None], "ok")

RECURSIVE apply_to_scene_nodes(_, _, _, _, _)
RECURSIVE apply_to_children(_, _, _, _, _, _)
\* for c in self.data_mut().children.iter_mut() { c.apply_to_scene_nodes_mut(f) }
apply_to_children(r, n, i, B, mutable, cb) ==
    IF r.st # "ok" \/ i > Len(r.nd[n].children) THEN r
    ELSE apply_to_children(apply_to_scene_nodes(r.nd, r.nd[n].children[i], B, mutable, cb),
                           n, i + 1, B, mutable, cb)

\* f(self), then the loop under self.data_mut() (or self.data()).  A node met
\* again below itself is borrowed already: data_mut() panics, data() recurses
\* without end and the stack overflows.
apply_to_scene_nodes(nd, n, B, mutable, cb) ==
    LET r == callback(nd, n, B, mutable, cb)
    IN  IF r.st # "ok" THEN r
        ELSE IF n \in B THEN Res(r.nd, IF mutable THEN "panic" ELSE "overflow")
        ELSE apply_to_children(r, n, 1, B \cup {n}, mutable, cb)

\* node.apply_to_scene_nodes(&mut f) / node.apply_to_scene_nodes_mut(&mut f)
ApplyToSceneNodes(n, mutable, cb) ==
    /\ Running /\ Usable(n)
    /\ LET r == apply_to_scene_nodes(node, n, {}, mutable, cb)
       IN  /\ node' = r.nd
           /\ panicked' = (r.st # "ok")
    /\ last' = [Op(IF mutable THEN "apply_to_scene_nodes_mut" ELSE "apply_to_scene_nodes",
                   n, None, One) EXCEPT !.arg = cb]
    /\ UNCHANGED <<planar, mem, handle, ub, drawn, gpu_vars, mat_vars, frame_vars, res_vars, ev_vars, mesh_vars>>

VisitNext ==
    \/ \E p, c \in Nodes : AddChild(p, c)
    \/ \E n \in Nodes : WorldTransformation(n)
    \/ \E n \in Nodes : SetLocalTransformation(n, Iso(0, <<1, 0, 0>>))
    \/ \E n \in Nodes, mutable \in BOOLEAN, cb \in Callbacks : ApplyToSceneNodes(n, mutable, cb)

SpecVisit == SceneInit /\ [][VisitNext]_vars

\* ====================================== ObjectMaterial / PlanarObjectMaterial
\* One render call of the built-in material, followed through its blocks.
\* planar selects PlanarObjectMaterial (attributes position and tex_coord,
\* culling switched off once for the whole call).
ObjectDatas == [surface : BOOLEAN, lines : BOOLEAN, points : BOOLEAN, cull : BOOLEAN]

\* the attributes activate() enables and deactivate() disables
MaterialAttribs == IF planar THEN {"position", "tex_coord"}
                   ELSE {"position", "normal", "tex_coord"}

Draw(k, prim, c) == [kind |-> k, prim |-> prim, cull |-> c]

\* activate(), the uniform uploads and mesh.bind(): the attribute buffers go
\* to ARRAY_BUFFER one after the other, the faces to ELEMENT_ARRAY_BUFFER.
MatActivate(o) ==
    /\ mpc = "inactive"
    /\ mpc' = "active"
    /\ mobj' = o
    /\ attribs' = attribs \cup MaterialAttribs
    /\ abuf' = "uvs"
    /\ ebuf' = "faces"
    /\ cull' = IF planar THEN FALSE ELSE cull
    /\ draws' = <<>>
    /\ UNCHANGED <<polymode, scene_vars, gpu_vars, frame_vars, res_vars, ev_vars, mesh_vars>>

\* the surface block with the culling test removed: the draw is issued with
\* whatever culling state the context was left in
MatSurface_keeps_cull ==
    /\ mpc = "active"
    /\ mpc' = "surface"
    /\ draws' = IF mobj.surface THEN Append(draws, Draw("surface", "TRIANGLES", cull))
                 ELSE draws
    /\ UNCHANGED <<cull, mobj, attribs, abuf, ebuf, polymode, scene_vars, gpu_vars, frame_vars, res_vars, ev_vars, mesh_vars>>

\* if data.surface_rendering_active() { culling as the object asks; FILL; draw }
MatSurface ==
    /\ mpc = "active"
    /\ mpc' = "surface"
    /\ IF mobj.surface
       THEN /\ cull' = IF planar THEN cull ELSE mobj.cull
            /\ draws' = Append(draws, Draw("surface", "TRIANGLES", cull'))
       ELSE UNCHANGED <<cull, draws>>
    /\ UNCHANGED <<mobj, attribs, abuf, ebuf, polymode, scene_vars, gpu_vars, frame_vars, res_vars, ev_vars, mesh_vars>>

\* if data.lines_width() != 0.0 { no culling; LINE polygons, or the edge list
\* where polygon_mode is not implemented }
MatLines ==
    /\ mpc = "surface"
    /\ mpc' = "lines"
    /\ IF mobj.lines
       THEN /\ cull' = FALSE
            /\ IF polymode
               THEN /\ draws' = Append(draws, Draw("wireframe", "TRIANGLES", FALSE))
                    /\ UNCHANGED ebuf
               ELSE /\ ebuf' = "edges"
                    /\ draws' = Append(draws, Draw("wireframe", "LINES", FALSE))
       ELSE UNCHANGED <<cull, draws, ebuf>>
    /\ UNCHANGED <<mobj, attribs, abuf, polymode, scene_vars, gpu_vars, frame_vars, res_vars, ev_vars, mesh_vars>>

\* the points block without its test: points are drawn for every object
MatPoints_always ==
    /\ mpc = "lines"
    /\ mpc' = "points"
    /\ cull' = FALSE
    /\ draws' = Append(draws, Draw("points", IF polymode THEN "TRIANGLES" ELSE "POINTS", FALSE))
    /\ UNCHANGED <<mobj, attribs, abuf, ebuf, polymode, scene_vars, gpu_vars, frame_vars, res_vars, ev_vars, mesh_vars>>

\* if data.points_size() != 0.0 { no culling; POINT polygons or POINTS }
MatPoints ==
    /\ mpc = "lines"
    /\ mpc' = "points"
    /\ IF mobj.points
       THEN /\ cull' = FALSE
            /\ draws' = Append(draws, Draw("points",
                                           IF polymode THEN "TRIANGLES" ELSE "POINTS", FALSE))
       ELSE UNCHANGED <<cull, draws>>
    /\ UNCHANGED <<mobj, attribs, abuf, ebuf, polymode, scene_vars, gpu_vars, frame_vars, res_vars, ev_vars, mesh_vars>>

\* the end of render() with mesh.unbind() forgotten
MatDeactivate_no_unbind ==
    /\ mpc = "points"
    /\ mpc' = "inactive"
    /\ attribs' = attribs \ MaterialAttribs
    /\ UNCHANGED <<abuf, ebuf, mobj, cull, draws, polymode, scene_vars, gpu_vars, frame_vars, res_vars, ev_vars, mesh_vars>>

\* mesh.unbind(): every vector binds None to its target (the edge list shares
\* the faces' target); deactivate(): the attributes are disabled.
MatDeactivate ==
    /\ mpc = "points"
    /\ mpc' = "inactive"
    /\ abuf' = "none"
    /\ ebuf' = "none"
    /\ attribs' = attribs \ MaterialAttribs
    /\ UNCHANGED <<mobj, cull, draws, polymode, scene_vars, gpu_vars, frame_vars, res_vars, ev_vars, mesh_vars>>

\* the blocks of a render call once it has started
MatStep == MatSurface \/ MatLines \/ MatPoints \/ MatDeactivate

\* Init: either material on either kind of platform, nothing rendered yet
MatInit ==
    /\ planar \in BOOLEAN /\ Unborn /\ GpuIdle /\ ResIdle /\ EvIdle /\ MeshIdle /\ FrameIdle
    /\ mpc = "inactive" /\ mobj = DefaultObject /\ attribs = {} /\ cull = FALSE
    /\ abuf = "none" /\ ebuf = "none" /\ draws = <<>>
    /\ polymode \in BOOLEAN

MatNext ==
    \/ \E o \in ObjectDatas : MatActivate(o)
    \/ MatSurface
    \/ MatLines
    \/ MatPoints
    \/ MatDeactivate

\* render() is straight-line code: a call that started runs to its end
SpecMaterial == MatInit /\ [][MatNext]_vars /\ WF_vars(MatStep)

\* ================================================= Window: one frame
\* render_single_frame: for each camera pass render_scene (clear, line
\* renderer, point renderer, scene traversal), then the planar scene, the
\* post-processing, the side bars and the text, then swap_buffers.
Ev(e, k) == [ev |-> e, n |-> k, pass |-> fpass]

\* Window::draw_line, called by the application between two frames
DrawLine ==
    /\ fpc = "idle" /\ lines < MaxRequests
    /\ lines' = lines + 1
    /\ UNCHANGED <<fpc, fpass, npasses, points, flog, close_vars,
                    scene_vars, gpu_vars, mat_vars, res_vars, ev_vars, mesh_vars>>

\* Window::draw_point
DrawPoint ==
    /\ fpc = "idle" /\ points < MaxRequests
    /\ points' = points + 1
    /\ UNCHANGED <<fpc, fpass, npasses, lines, flog, close_vars,
                    scene_vars, gpu_vars, mat_vars, res_vars, ev_vars, mesh_vars>>

\* The user closes the window or releases Escape: the canvas queues the event.
PostClose ==
    /\ ~evq
    /\ evq' = TRUE
    /\ UNCHANGED <<fpc, fpass, npasses, lines, points, flog,
                    should_close, fret, stepped, with_state,
                    scene_vars, gpu_vars, mat_vars, res_vars, ev_vars, mesh_vars>>

\* a frame that returns false as soon as it has processed a close event
FrameStart_returns_on_close ==
    /\ fpc = "idle"
    /\ IF evq
       THEN /\ should_close' = TRUE
            /\ evq' = FALSE
            /\ flog' = <<Ev("close", 0)>>
            /\ fret' = FALSE
            /\ stepped' = FALSE
            /\ UNCHANGED <<fpc, fpass>>
       ELSE /\ fpc' = "lines"
            /\ fpass' = 0
            /\ flog' = <<[Ev("start_pass", 0) EXCEPT !.pass = 0]>>
            /\ UNCHANGED <<evq, should_close, fret, stepped>>
    /\ UNCHANGED <<npasses, lines, points, with_state, scene_vars, gpu_vars, mat_vars, res_vars, ev_vars, mesh_vars>>

\* do_render_with: handle_events (a close event sets should_close), then
\* render_single_frame up to start_pass(0) and render_scene of pass 0
FrameStart ==
    /\ fpc = "idle"
    /\ fpc' = "lines"
    /\ fpass' = 0
    /\ evq' = FALSE
    /\ should_close' = (should_close \/ evq)
    /\ flog' = (IF evq THEN <<Ev("close", 0)>> ELSE <<>>)
                  \o <<[Ev("start_pass", 0) EXCEPT !.pass = 0]>>
    /\ UNCHANGED <<npasses, lines, points, fret, stepped, with_state,
                    scene_vars, gpu_vars, mat_vars, res_vars, ev_vars, mesh_vars>>

\* LineRenderer::render: nothing when the buffer is empty, else one draw of
\* all the requests and lines.clear()
FlushLines ==
    /\ fpc = "lines"
    /\ fpc' = "points"
    /\ IF lines = 0 THEN UNCHANGED <<lines, flog>>
       ELSE /\ flog' = Append(flog, Ev("lines", lines))
            /\ lines' = 0
    /\ UNCHANGED <<fpass, npasses, points, close_vars, scene_vars, gpu_vars, mat_vars, res_vars, ev_vars, mesh_vars>>

\* PointRenderer::render
FlushPoints ==
    /\ fpc = "points"
    /\ fpc' = "scene"
    /\ IF points = 0 THEN UNCHANGED <<points, flog>>
       ELSE /\ flog' = Append(flog, Ev("points", points))
            /\ points' = 0
    /\ UNCHANGED <<fpass, npasses, lines, close_vars, scene_vars, gpu_vars, mat_vars, res_vars, ev_vars, mesh_vars>>

\* a pass loop that renders pass 0 only
Traverse_single_pass ==
    /\ fpc = "scene"
    /\ flog' = flog \o <<Ev("scene", 0), Ev("render_complete", 0)>>
    /\ fpc' = "end"
    /\ UNCHANGED <<fpass, npasses, lines, points, close_vars, scene_vars, gpu_vars, mat_vars, res_vars, ev_vars, mesh_vars>>

\* self.scene.data_mut().render(pass, ..); then start_pass of the next pass
\* if there is one, camera.render_complete() after the last
Traverse ==
    /\ fpc = "scene"
    /\ IF fpass + 1 < npasses
       THEN /\ fpc' = "lines" /\ fpass' = fpass + 1
            /\ flog' = flog \o <<Ev("scene", 0),
                                  [Ev("start_pass", 0) EXCEPT !.pass = fpass + 1]>>
       ELSE /\ fpc' = "end" /\ UNCHANGED fpass
            /\ flog' = flog \o <<Ev("scene", 0), Ev("render_complete", 0)>>
    /\ UNCHANGED <<npasses, lines, points, close_vars, scene_vars, gpu_vars, mat_vars, res_vars, ev_vars, mesh_vars>>

\* the rest of the frame, ending in canvas.swap_buffers(); the call returns
\* !should_close, and do_render_with_state runs state.step unless it is false
SwapBuffers ==
    /\ fpc = "end"
    /\ fpc' = "idle"
    /\ flog' = Append(flog, Ev("swap", 0))
    /\ fret' = ~should_close
    /\ stepped' = (with_state /\ ~should_close)
    /\ UNCHANGED <<fpass, npasses, lines, points, evq, should_close, with_state,
                    scene_vars, gpu_vars, mat_vars, res_vars, ev_vars, mesh_vars>>

\* Init: a window with a one-pass camera or the two-pass stereo camera, driven
\* by render() calls or by render_loop
FrameInit ==
    /\ planar = FALSE /\ Unborn /\ GpuIdle /\ ResIdle /\ EvIdle /\ MeshIdle /\ MatIdle
    /\ fpc = "idle" /\ fpass = 0 /\ lines = 0 /\ points = 0 /\ flog = <<>>
    /\ npasses \in {1, 2}
    /\ evq = FALSE /\ should_close = FALSE /\ fret = "none" /\ stepped = FALSE
    /\ with_state \in BOOLEAN

FrameNext ==
    \/ DrawLine
    \/ DrawPoint
    \/ PostClose
    \/ FrameStart
    \/ FlushLines
    \/ FlushPoints
    \/ Traverse
    \/ SwapBuffers

SpecFrame == FrameInit /\ [][FrameNext]_vars

\* ---- the window's events: the channel, EventManager, handle_events

\* The canvas sends an event into the channel.
Arrive(k) ==
    /\ nextev <= MaxEvents
    /\ chan' = Append(chan, [id |-> nextev, kind |-> k])
    /\ nextev' = nextev + 1
    /\ UNCHANGED <<unhandled, handled, inhibited, requeued, delivered, cams,
                    scene_vars, gpu_vars, mat_vars, frame_vars, res_vars, mesh_vars>>

\* window.events().iter().next(): the application takes the oldest event off
\* the channel, sets event.inhibited or not, and drops it; Event::drop pushes
\* an un-inhibited event onto unhandled_events.
Iterate(inh) ==
    /\ chan # <<>>
    /\ chan' = Tail(chan)
    /\ IF inh
       THEN /\ inhibited' = inhibited \cup {Head(chan).id}
            /\ UNCHANGED <<unhandled, requeued>>
       ELSE /\ unhandled' = Append(unhandled, Head(chan))
            /\ requeued' = requeued \cup {Head(chan).id}
            /\ UNCHANGED inhibited
    /\ UNCHANGED <<handled, delivered, nextev, cams,
                    scene_vars, gpu_vars, mat_vars, frame_vars, res_vars, mesh_vars>>

\* the two camera calls of handle_event: the planar camera if one was
\* supplied, else self.camera; then the camera if one was supplied, else
\* self.camera
handle_event(e, camera, planar_camera) ==
    << [ev |-> e.id, cam |-> IF planar_camera THEN "planar_camera" ELSE "self.camera"],
       [ev |-> e.id, cam |-> IF camera THEN "camera" ELSE "self.camera"] >>

RECURSIVE camera_calls(_, _, _)
camera_calls(q, camera, planar_camera) ==
    IF q = <<>> THEN <<>>
    ELSE handle_event(Head(q), camera, planar_camera)
            \o camera_calls(Tail(q), camera, planar_camera)

\* handle_events that forgets unhandled_events.clear()
HandleEvents_keeping_unhandled(camera, planar_camera) ==
    /\ fpc = "idle"
    /\ LET q == unhandled \o chan
       IN  /\ handled' = handled \o [i \in 1..Len(q) |-> q[i].id]
           /\ delivered' = delivered \o camera_calls(q, camera, planar_camera)
           /\ should_close' = (should_close \/ \E i \in 1..Len(q) : q[i].kind = "close")
    /\ chan' = <<>>
    /\ cams' = [camera |-> camera, planar_camera |-> planar_camera]
    /\ UNCHANGED <<unhandled, inhibited, requeued, nextev, fpc, fpass, npasses, lines, points, flog,
                    evq, fret, stepped, with_state,
                    scene_vars, gpu_vars, mat_vars, res_vars, mesh_vars>>

\* Window::handle_events at the start of a frame whose caller supplied a
\* camera / a planar camera or not: handle_event on every re-queued event,
\* then on every event of the channel; unhandled_events.clear()
HandleEvents(camera, planar_camera) ==
    /\ fpc = "idle"
    /\ LET q == unhandled \o chan
       IN  /\ handled' = handled \o [i \in 1..Len(q) |-> q[i].id]
           /\ delivered' = delivered \o camera_calls(q, camera, planar_camera)
           /\ should_close' = (should_close \/ \E i \in 1..Len(q) : q[i].kind = "close")
    /\ unhandled' = <<>>
    /\ chan' = <<>>
    /\ cams' = [camera |-> camera, planar_camera |-> planar_camera]
    /\ UNCHANGED <<inhibited, requeued, nextev, fpc, fpass, npasses, lines, points, flog,
                    evq, fret, stepped, with_state,
                    scene_vars, gpu_vars, mat_vars, res_vars, mesh_vars>>

EventsInit ==
    /\ planar = FALSE /\ Unborn /\ GpuIdle /\ MatIdle /\ FrameIdle /\ ResIdle /\ EvIdle /\ MeshIdle

EventsNext ==
    \/ \E k \in {"close", "key"} : Arrive(k)
    \/ \E inh \in BOOLEAN : Iterate(inh)
    \/ \E camera, planar_camera \in BOOLEAN : HandleEvents(camera, planar_camera)

SpecEvents == EventsInit /\ [][EventsNext]_vars

\* ================================================================ GPUVec
Elems == {1, 2}

Arrays == UNION {[1..k -> Elems] : k \in 0..MaxLen}

is_on_gpu == is_some(buffer)

is_on_ram == is_some(data)

\* The backend's buffer_sub_data(0, arr): the prefix of the store is rewritten.
buffer_sub_data(content, arr) ==
    [i \in 1..Len(content) |-> IF i <= Len(arr) THEN arr[i] ELSE content[i]]

\* update_buffer: the new allocated length, the store's content and the
\* upload call issued.
update_buffer(arr, gpu_buf_len, content) ==
    IF Len(arr) < gpu_buf_len
    THEN [len |-> gpu_buf_len, content |-> buffer_sub_data(content, arr),
          call |-> "buffer_sub_data"]
    ELSE [len |-> Len(arr), content |-> arr, call |-> "buffer_data"]

\* upload_array: a fresh buffer filled through update_buffer(arr, 0, ..).
upload_array(arr) == update_buffer(arr, 0, <<>>)

\* load_to_gpu that forgets the dirty test: a vector on the GPU is uploaded
\* again at every call.
load_to_gpu_always_uploads(g) ==
    IF is_some(g.buffer) /\ is_some(g.data)
    THEN LET b == unwrap(g.buffer)
             u == update_buffer(unwrap(g.data), b.len, b.content)
         IN  [g EXCEPT !.len = Len(unwrap(g.data)),
                       !.buffer = Some([len |-> u.len, content |-> u.content]),
                       !.bound = TRUE,
                       !.calls = g.calls \o <<u.call>>,
                       !.trash = FALSE]
    ELSE IF is_some(g.data)
    THEN [g EXCEPT !.len = Len(unwrap(g.data)),
                   !.buffer = Some([len |-> Len(unwrap(g.data)),
                                    content |-> unwrap(g.data)]),
                   !.bound = TRUE,
                   !.calls = g.calls \o <<"create_buffer", "buffer_data">>,
                   !.trash = FALSE]
    ELSE [g EXCEPT !.trash = FALSE]

\* GPUVec::load_to_gpu as a function of the fields.
load_to_gpu(g) ==
    IF ~is_some(g.buffer)
    THEN IF is_some(g.data)
         THEN [g EXCEPT !.len = Len(unwrap(g.data)),
                        !.buffer = Some([len |-> Len(unwrap(g.data)),
                                         content |-> upload_array(unwrap(g.data)).content]),
                        !.bound = TRUE,
                        !.calls = g.calls \o <<"create_buffer", upload_array(unwrap(g.data)).call>>,
                        !.trash = FALSE]
         ELSE [g EXCEPT !.trash = FALSE]
    ELSE IF g.trash /\ is_some(g.data)
         THEN LET b == unwrap(g.buffer)
                  u == update_buffer(unwrap(g.data), b.len, b.content)
              IN  [g EXCEPT !.len = Len(unwrap(g.data)),
                            !.buffer = Some([len |-> u.len, content |-> u.content]),
                            !.bound = TRUE,
                            !.calls = g.calls \o <<u.call>>,
                            !.trash = FALSE]
         ELSE [g EXCEPT !.trash = FALSE]

\* The vector's fields as an operation finds them; it has issued no call yet.
Fields == [trash |-> trash, len |-> len, buffer |-> buffer, data |-> data, bound |-> bound,
           calls |-> <<>>]

Store(g) ==
    /\ trash' = g.trash
    /\ len' = g.len
    /\ buffer' = g.buffer
    /\ data' = g.data
    /\ bound' = g.bound
    /\ calls' = g.calls

\* GPUVec::len: the CPU array's length while dirty, the cached len otherwise;
\* -1 stands for the panic "This should never happend."
len_of(g) ==
    IF g.trash
    THEN (IF is_some(g.data) THEN Len(unwrap(g.data)) ELSE 0 - 1)
    ELSE g.len

\* data_mut(): marks the vector dirty and hands out &mut Option<Vec<T>>, through
\* which the caller leaves any value w.
DataMut(w) ==
    /\ ~panicked /\ nwrites < MaxWrites
    /\ nwrites' = nwrites + 1
    /\ trash' = TRUE
    /\ data' = w
    /\ glast' = "data_mut"
    /\ calls' = <<>>
    /\ UNCHANGED <<len, buffer, bound, panicked, scene_vars, mat_vars, frame_vars, res_vars, ev_vars, mesh_vars>>

LoadToGpu ==
    /\ ~panicked
    /\ Store(load_to_gpu(Fields))
    /\ glast' = "load_to_gpu"
    /\ UNCHANGED <<nwrites, panicked, scene_vars, mat_vars, frame_vars, res_vars, ev_vars, mesh_vars>>

\* bind(): load_to_gpu(), then bind_buffer(buffer or None).
Bind ==
    /\ ~panicked
    /\ LET g == load_to_gpu(Fields)
       IN  Store([g EXCEPT !.bound = is_some(g.buffer)])
    /\ glast' = "bind"
    /\ UNCHANGED <<nwrites, panicked, scene_vars, mat_vars, frame_vars, res_vars, ev_vars, mesh_vars>>

Unbind ==
    /\ ~panicked
    /\ bound' = IF is_on_gpu THEN FALSE ELSE bound
    /\ glast' = "unbind"
    /\ calls' = <<>>
    /\ UNCHANGED <<trash, len, buffer, data, nwrites, panicked, scene_vars, mat_vars, frame_vars, res_vars, ev_vars, mesh_vars>>

\* unload_from_gpu(): delete_buffer, len = self.len(), buffer = None, trash = false
UnloadFromGpu ==
    /\ ~panicked
    /\ IF len_of(Fields) < 0
       THEN /\ panicked' = TRUE
            /\ calls' = IF is_on_gpu THEN <<"delete_buffer">> ELSE <<>>
            /\ UNCHANGED <<trash, len, buffer, data, bound>>
       ELSE /\ Store([Fields EXCEPT !.len = len_of(Fields),
                                    !.buffer = Nothing,
                                    !.bound = FALSE,
                                    !.calls = IF is_on_gpu THEN <<"delete_buffer">> ELSE <<>>,
                                    !.trash = FALSE])
            /\ UNCHANGED panicked
    /\ glast' = "unload_from_gpu"
    /\ UNCHANGED <<nwrites, planar, mem, handle, node, nops, last, ub, drawn,
                    mat_vars, frame_vars, res_vars, ev_vars, mesh_vars>>

\* unload_from_ram(): a dirty vector that is on the GPU is synchronised first.
UnloadFromRam ==
    /\ ~panicked
    /\ LET g == IF trash /\ is_on_gpu THEN load_to_gpu(Fields) ELSE Fields
       IN  Store([g EXCEPT !.data = Nothing])
    /\ glast' = "unload_from_ram"
    /\ UNCHANGED <<nwrites, panicked, scene_vars, mat_vars, frame_vars, res_vars, ev_vars, mesh_vars>>

\* Init: GPUVec::new(d, ..) for any array d; no node exists.
GpuInit ==
    /\ planar = FALSE /\ Unborn
    /\ \E d \in Arrays :
        /\ trash = TRUE
        /\ len = Len(d)
        /\ buffer = Nothing
        /\ data = Some(d)
    /\ bound = FALSE /\ nwrites = 0 /\ glast = "new" /\ calls = <<>>
    /\ MatIdle /\ FrameIdle /\ ResIdle /\ EvIdle /\ MeshIdle

GpuNext ==
    \/ \E w \in {Nothing} \cup {Some(d) : d \in Arrays} : DataMut(w)
    \/ LoadToGpu
    \/ Bind
    \/ Unbind
    \/ UnloadFromGpu
    \/ UnloadFromRam

SpecGpu == GpuInit /\ [][GpuNext]_vars

\* ====================================== registries, constructors, shared Mesh
ResStep ==
    /\ ~panicked /\ rops < MaxResOps
    /\ rops' = rops + 1
    /\ UNCHANGED <<planar, mem, handle, node, nops, last, ub, drawn,
                    gpu_vars, mat_vars, frame_vars, ev_vars, mesh_vars>>

\* add_mesh: an Object with the default texture and material around the mesh
add_mesh(c, m) == Append(objs, NewObj(c, m, get_default_material, get_default_texture))

\* add_geom_with_name(name, scale): Some(node) around the registered Mesh,
\* None when the name is not registered
AddGeomWithName(name) ==
    /\ ResStep /\ Len(objs) < MaxObjects
    /\ IF is_some(mesh_get(name))
       THEN /\ objs' = add_mesh("add_geom_with_name", unwrap(mesh_get(name)))
            /\ rlast' = ROp("add_geom_with_name", Len(objs) + 1, name, "some")
       ELSE /\ rlast' = ROp("add_geom_with_name", 0, name, "none")
            /\ UNCHANGED objs
    /\ UNCHANGED <<meshes, materials, textures, nmesh, coords, panicked>>

\* add_cube, add_sphere, add_cone, add_cylinder:
\* add_geom_with_name(<name>, ..).expect(..)
AddPrimitive(name) ==
    /\ ResStep /\ Len(objs) < MaxObjects
    /\ IF is_some(mesh_get(name))
       THEN /\ objs' = add_mesh(name, unwrap(mesh_get(name)))
            /\ rlast' = ROp(name, Len(objs) + 1, name, "node")
            /\ UNCHANGED panicked
       ELSE /\ panicked' = TRUE
            /\ rlast' = ROp(name, 0, name, "panic")
            /\ UNCHANGED objs
    /\ UNCHANGED <<meshes, materials, textures, nmesh, coords>>

\* add_capsule, add_quad, add_quad_with_vertices: add_trimesh(procedural::..),
\* that is add_mesh(Rc::new(RefCell::new(Mesh::from_trimesh(..)))); the quads
\* then disable backface culling
AddTrimesh(c) ==
    /\ ResStep /\ Len(objs) < MaxObjects /\ nmesh < MaxMeshes
    /\ nmesh' = nmesh + 1
    /\ coords' = [coords EXCEPT ![nmesh + 1] = NewCoords(UnitCoords)]
    /\ objs' = Append(objs, [NewObj(c, nmesh + 1, get_default_material, get_default_texture)
                               EXCEPT !.cull = (c = "add_capsule")])
    /\ rlast' = ROp(c, Len(objs) + 1, "", "node")
    /\ UNCHANGED <<meshes, materials, textures, panicked>>

\* MeshManager::add(node.object.mesh().clone(), "custom")
MeshAdd(i) ==
    /\ ResStep /\ i \in 1..Len(objs)
    /\ meshes' = [meshes EXCEPT !["custom"] = objs[i].mesh]
    /\ rlast' = ROp("mesh_add", i, "custom", "unit")
    /\ UNCHANGED <<materials, textures, nmesh, coords, objs, panicked>>

\* MaterialManager::add(material, "user")
MaterialAdd ==
    /\ ResStep /\ "user" \notin materials
    /\ materials' = materials \cup {"user"}
    /\ rlast' = ROp("material_add", 0, "user", "unit")
    /\ UNCHANGED <<meshes, textures, nmesh, coords, objs, panicked>>

\* TextureManager::add_empty("user")
TextureAdd ==
    /\ ResStep /\ "user" \notin textures
    /\ textures' = textures \cup {"user"}
    /\ rlast' = ROp("texture_add", 0, "user", "unit")
    /\ UNCHANGED <<meshes, materials, nmesh, coords, objs, panicked>>

\* set_material_with_name on the node of object i: tm.get(name).unwrap_or_else(
\* || panic!(..)), then set_material
SetMaterialWithName(i, name) ==
    /\ ResStep /\ i \in 1..Len(objs)
    /\ IF name \in materials
       THEN /\ objs' = [objs EXCEPT ![i].material = name]
            /\ rlast' = ROp("set_material_with_name", i, name, "unit")
            /\ UNCHANGED panicked
       ELSE /\ panicked' = TRUE
            /\ rlast' = ROp("set_material_with_name", i, name, "panic")
            /\ UNCHANGED objs
    /\ UNCHANGED <<meshes, materials, textures, nmesh, coords>>

\* set_texture_with_name on the node of object i
SetTextureWithName(i, name) ==
    /\ ResStep /\ i \in 1..Len(objs)
    /\ IF name \in textures
       THEN /\ objs' = [objs EXCEPT ![i].texture = name]
            /\ rlast' = ROp("set_texture_with_name", i, name, "unit")
            /\ UNCHANGED panicked
       ELSE /\ panicked' = TRUE
            /\ rlast' = ROp("set_texture_with_name", i, name, "panic")
            /\ UNCHANGED objs
    /\ UNCHANGED <<meshes, materials, textures, nmesh, coords>>

\* what read_vertices hands to its callback through object i: the data of the
\* coords of the Mesh the object references (no call when it is not on RAM)
vertices(cs, os, i) == cs[os[i].mesh].data

\* modify_vertices that writes the vertices without going through data_mut
ModifyVertices_without_trash(i, w) ==
    /\ ResStep /\ i \in 1..Len(objs)
    /\ coords' = [coords EXCEPT ![objs[i].mesh].data = IF is_some(@) THEN Some(w) ELSE @,
                                ![objs[i].mesh].calls = <<>>]
    /\ rlast' = ROp("modify_vertices", i, w, "unit")
    /\ UNCHANGED <<meshes, materials, textures, nmesh, objs, panicked>>

\* Object::modify_vertices(f): coords().write().data_mut().as_mut().map(f);
\* data_mut sets trash, the callback leaves the vector w
ModifyVertices(i, w) ==
    /\ ResStep /\ i \in 1..Len(objs)
    /\ coords' = [coords EXCEPT ![objs[i].mesh].trash = TRUE,
                                ![objs[i].mesh].data = IF is_some(@) THEN Some(w) ELSE @,
                                ![objs[i].mesh].calls = <<>>]
    /\ rlast' = ROp("modify_vertices", i, w, "unit")
    /\ UNCHANGED <<meshes, materials, textures, nmesh, objs, panicked>>

\* Object::read_vertices(f): the callback's argument is the return value
ReadVertices(i) ==
    /\ ResStep /\ i \in 1..Len(objs)
    /\ rlast' = ROp("read_vertices", i, "", vertices(coords, objs, i))
    /\ UNCHANGED <<meshes, materials, textures, nmesh, coords, objs, panicked>>

\* Mesh::bind_coords of the Mesh of object i: GPUVec::bind on its coords
BindCoords(i) ==
    /\ ResStep /\ i \in 1..Len(objs)
    /\ LET g == load_to_gpu([coords[objs[i].mesh] EXCEPT !.calls = <<>>])
       IN  coords' = [coords EXCEPT ![objs[i].mesh] = [g EXCEPT !.bound = is_some(g.buffer)]]
    /\ rlast' = ROp("bind", i, "", "unit")
    /\ UNCHANGED <<meshes, materials, textures, nmesh, objs, panicked>>

\* Callbacks that depend on what they find: one more vertex, or none left.
VertexCallbacks == {"push", "clear"}

vertex_callback(cb, d) == IF cb = "push" THEN Append(d, 1) ELSE <<>>

\* Object::modify_vertices(f) on the Object whose Mesh is m
object_modify_vertices(cs, m, cb) ==
    [cs EXCEPT ![m].trash = TRUE,
               ![m].data = IF is_some(@) THEN Some(vertex_callback(cb, unwrap(@))) ELSE @,
               ![m].calls = <<>>]

\* apply_to_objects_mut(|o| o.modify_vertices(f)) over the Objects from the
\* i-th on: one call per Object
RECURSIVE apply_to_objects_mut(_, _, _, _)
apply_to_objects_mut(cs, os, i, cb) ==
    IF i > Len(os) THEN cs
    ELSE apply_to_objects_mut(object_modify_vertices(cs, os[i].mesh, cb), os, i + 1, cb)

\* SceneNodeData::modify_vertices(f) on the node the Objects were added to
NodeModifyVertices(cb) ==
    /\ ResStep /\ Len(objs) > 0
    /\ coords' = apply_to_objects_mut(coords, objs, 1, cb)
    /\ rlast' = ROp("node_modify_vertices", 0, cb, "unit")
    /\ UNCHANGED <<meshes, materials, textures, nmesh, objs, panicked>>

VertexEdits == {<<2>>, <<2, 1, 1>>}

ResInit == planar = FALSE /\ Unborn /\ GpuIdle /\ MatIdle /\ FrameIdle /\ ResIdle /\ EvIdle /\ MeshIdle

ResNext ==
    \/ \E name \in GeomNames : AddGeomWithName(name)
    \/ \E name \in BuiltinGeoms : AddPrimitive(name)
    \/ \E c \in {"add_capsule", "add_quad", "add_quad_with_vertices"} : AddTrimesh(c)
    \/ \E i \in 1..MaxObjects : MeshAdd(i)
    \/ MaterialAdd
    \/ TextureAdd
    \/ \E i \in 1..MaxObjects, name \in MaterialNames : SetMaterialWithName(i, name)
    \/ \E i \in 1..MaxObjects, name \in TextureNames : SetTextureWithName(i, name)
    \/ \E i \in 1..MaxObjects, w \in VertexEdits : ModifyVertices(i, w)
    \/ \E cb \in VertexCallbacks : NodeModifyVertices(cb)
    \/ \E i \in 1..MaxObjects : ReadVertices(i)
    \/ \E i \in 1..MaxObjects : BindCoords(i)

SpecResource == ResInit /\ [][ResNext]_vars

\* ======================================= Mesh: edge buffer, vertex normals
Zero3 == <<0, 0, 0>>
Sub(a, b) == <<a[1] - b[1], a[2] - b[2], a[3] - b[3]>>
Cross(a, b) == <<a[2] * b[3] - a[3] * b[2],
                 a[3] * b[1] - a[1] * b[3],
                 a[1] * b[2] - a[2] * b[1]>>

\* The vertices are corners of the unit cube, so a face's cross product has
\* components in -1..1 and squared length 1, 2 or 3. A sum of normalized
\* vectors is kept exactly as v1/sqrt(1) + v2/sqrt(2) + v3/sqrt(3) with
\* integer vectors v1, v2, v3; 1, sqrt(2), sqrt(3) are independent over the
\* rationals, so two such sums are equal iff their three vectors are.
NormSq == {1, 2, 3}
ZeroSum == [s \in NormSq |-> Zero3]
normalize(c) ==
    [s \in NormSq |-> IF s = c[1] * c[1] + c[2] * c[2] + c[3] * c[3] THEN c ELSE Zero3]
AddSum(a, b) ==
    [s \in NormSq |-> <<a[s][1] + b[s][1], a[s][2] + b[s][2], a[s][3] + b[s][3]>>]

\* *n /= *divisor in f32: 0.0 / 0.0 is NaN, x / 0.0 is infinite
Div(n, divisor) ==
    IF divisor = 0
    THEN [kind |-> IF n = ZeroSum THEN "NaN" ELSE "inf", sum |-> n, by |-> 0]
    ELSE [kind |-> "finite", sum |-> n, by |-> divisor]

\* the loop over the faces from face i on; acc holds normals and divisor
RECURSIVE accumulate(_, _, _, _)
accumulate(coordinates, faces, i, acc) ==
    IF i > Len(faces) THEN acc
    ELSE LET f == faces[i]
             edge1 == Sub(coordinates[f[2] + 1], coordinates[f[1] + 1])
             edge2 == Sub(coordinates[f[3] + 1], coordinates[f[1] + 1])
             cross == Cross(edge1, edge2)
             normal == IF cross # Zero3 THEN normalize(cross) ELSE ZeroSum
             n1 == [acc.normals EXCEPT ![f[1] + 1] = AddSum(@, normal)]
             n2 == [n1 EXCEPT ![f[2] + 1] = AddSum(@, normal)]
             n3 == [n2 EXCEPT ![f[3] + 1] = AddSum(@, normal)]
             d1 == [acc.divisor EXCEPT ![f[1] + 1] = @ + 1]
             d2 == [d1 EXCEPT ![f[2] + 1] = @ + 1]
             d3 == [d2 EXCEPT ![f[3] + 1] = @ + 1]
         IN  accumulate(coordinates, faces, i + 1, [normals |-> n3, divisor |-> d3])

\* compute_normals that leaves the sums undivided
compute_normals_without_average(coordinates, faces) ==
    LET acc == accumulate(coordinates, faces, 1,
                          [normals |-> [v \in 1..Len(coordinates) |-> ZeroSum],
                           divisor |-> [v \in 1..Len(coordinates) |-> 0]])
    IN  [v \in 1..Len(coordinates) |-> [kind |-> "finite", sum |-> acc.normals[v], by |-> 1]]

\* Mesh::compute_normals
compute_normals(coordinates, faces) ==
    LET acc == accumulate(coordinates, faces, 1,
                          [normals |-> [v \in 1..Len(coordinates) |-> ZeroSum],
                           divisor |-> [v \in 1..Len(coordinates) |-> 0]])
    IN  [v \in 1..Len(coordinates) |-> Div(acc.normals[v], acc.divisor[v])]

\* the edges (x,y), (y,z), (z,x) of every face, in face order
EdgesOf(faces) ==
    [i \in 1..(3 * Len(faces)) |->
        LET face == faces[((i - 1) \div 3) + 1]
            k == (i - 1) % 3
        IN  IF k = 0 THEN <<face[1], face[2]>>
            ELSE IF k = 1 THEN <<face[2], face[3]>>
            ELSE <<face[3], face[1]>>]

\* bind_edges that derives the edge buffer on every call
bind_edges_rebuilding(edges, faces) ==
    [edges |-> [some |-> TRUE, data |-> EdgesOf(faces)], built |-> 1]

\* Mesh::bind_edges / PlanarMesh::bind_edges: the edge buffer after the call
\* and the number of buffers the call built
bind_edges(edges, faces) ==
    IF ~edges.some
    THEN [edges |-> [some |-> TRUE, data |-> EdgesOf(faces)], built |-> 1]
    ELSE [edges |-> edges, built |-> 0]

\* Mesh::num_pts
num_pts(faces) == Len(faces) * 3

\* the vertices and the faces the meshes are made of
Points == {<<0, 0, 0>>, <<1, 0, 0>>, <<1, 1, 0>>, <<0, 1, 0>>, <<0, 0, 1>>}
FaceChoices == {<<0, 1, 2>>, <<0, 2, 3>>, <<2, 1, 0>>, <<1, 2, 3>>, <<0, 1, 1>>, <<0, 3, 2>>}

\* the closures given to modify_faces
FaceCallbacks == {"push", "pop", "clear"}
face_callback(cb, d) ==
    CASE cb = "push" -> IF Len(d) < MaxFaces THEN Append(d, <<0, 2, 3>>) ELSE d
      [] cb = "pop" -> IF d = <<>> THEN d ELSE SubSeq(d, 1, Len(d) - 1)
      [] cb = "clear" -> <<>>

\* Object::modify_faces: the closure runs on the faces held in RAM
ModifyFaces(cb) ==
    /\ mfaces' = face_callback(cb, mfaces)
    /\ UNCHANGED <<mcoords, mnormals, medges, ebuilt, ebinds, edraw,
                    scene_vars, gpu_vars, mat_vars, frame_vars, res_vars, ev_vars>>

\* Mesh::bind_edges called by the application
BindEdges ==
    /\ ebinds < MaxBinds
    /\ LET r == bind_edges(medges, mfaces)
       IN  /\ medges' = r.edges
           /\ ebuilt' = ebuilt + r.built
    /\ ebinds' = ebinds + 1
    /\ UNCHANGED <<mcoords, mfaces, mnormals, edraw,
                    scene_vars, gpu_vars, mat_vars, frame_vars, res_vars, ev_vars>>

\* ObjectMaterial::render where polygon_mode is not implemented:
\* mesh.bind_edges(); draw_elements(LINES, mesh.num_pts() * 2, ..)
RenderWireframe ==
    /\ ebinds < MaxBinds
    /\ LET r == bind_edges(medges, mfaces)
       IN  /\ medges' = r.edges
           /\ ebuilt' = ebuilt + r.built
           /\ edraw' = [count |-> num_pts(mfaces) * 2, stored |-> Len(r.edges.data) * 2]
    /\ ebinds' = ebinds + 1
    /\ UNCHANGED <<mcoords, mfaces, mnormals,
                    scene_vars, gpu_vars, mat_vars, frame_vars, res_vars, ev_vars>>

\* Mesh::recompute_normals
RecomputeNormals ==
    /\ mnormals' = compute_normals(mcoords, mfaces)
    /\ UNCHANGED <<mcoords, mfaces, medges, ebuilt, ebinds, edraw,
                    scene_vars, gpu_vars, mat_vars, frame_vars, res_vars, ev_vars>>

\* Mesh::new(coords, faces, None, ..) of a quad's vertices: the normals are
\* computed, edges is None
EdgesInit ==
    /\ planar = FALSE /\ Unborn /\ GpuIdle /\ MatIdle /\ FrameIdle /\ ResIdle /\ EvIdle
    /\ mcoords = <<<<0, 0, 0>>, <<1, 0, 0>>, <<1, 1, 0>>, <<0, 1, 0>>>>
    /\ mfaces \in UNION {[1..k -> FaceChoices] : k \in 0..MaxFaces}
    /\ mnormals = compute_normals(mcoords, mfaces)
    /\ medges = NoEdges /\ ebuilt = 0 /\ ebinds = 0 /\ edraw = [count |-> 0, stored |-> 0]

EdgesNext ==
    \/ \E cb \in FaceCallbacks : ModifyFaces(cb)
    \/ BindEdges
    \/ RenderWireframe

SpecEdges == EdgesInit /\ [][EdgesNext]_vars

\* Mesh::new(coords, faces, Some(vec![]), ..): four vertices, up to MaxFaces
\* faces over them, the caller's (empty) normals
NormalsInit ==
    /\ planar = FALSE /\ Unborn /\ GpuIdle /\ MatIdle /\ FrameIdle /\ ResIdle /\ EvIdle
    /\ mcoords \in [1..4 -> Points]
    /\ mfaces \in UNION {[1..k -> FaceChoices] : k \in 0..MaxFaces}
    /\ mnormals = <<>>
    /\ medges = NoEdges /\ ebuilt = 0 /\ ebinds = 0 /\ edraw = [count |-> 0, stored |-> 0]

NormalsNext == RecomputeNormals

SpecNormals == NormalsInit /\ [][NormalsNext]_vars

\* ================================================================ properties
MutOps == {"set_local_transformation", "append_transformation",
           "prepend_to_local_transformation", "set_local_scale"}

\* The node that currently is n's parent in the tree (None for a root and for
\* a node whose parent was destroyed).
ParentOf(m, nd, n) ==
    IF nd[n].parent # None /\ m[nd[n].parent] = "live" THEN nd[n].parent ELSE None

RECURSIVE AncestorsK(_, _, _, _)
AncestorsK(m, nd, n, k) ==
    IF k = 0 \/ ParentOf(m, nd, n) = None THEN {}
    ELSE {ParentOf(m, nd, n)} \cup AncestorsK(m, nd, ParentOf(m, nd, n), k - 1)

Ancestors(m, nd, n) == AncestorsK(m, nd, n, NumNodes)

\* n's ancestor chain ends in a root (n is on no cycle of parent links).
Rooted(m, nd, n) == n \notin Ancestors(m, nd, n) /\ \A a \in Ancestors(m, nd, n) : a \notin Ancestors(m, nd, a)

\* Pk.local * ... * P1.local * n.local, root first.
RECURSIVE RootFirstK(_, _, _, _)
RootFirstK(m, nd, n, k) ==
    IF k = 0 \/ ParentOf(m, nd, n) = None THEN nd[n].local_transform
    ELSE Mul(RootFirstK(m, nd, ParentOf(m, nd, n), k - 1), nd[n].local_transform)

RootFirst(m, nd, n) == RootFirstK(m, nd, n, NumNodes)

RECURSIVE SubtreeK(_, _, _)
SubtreeK(nd, S, k) ==
    IF k = 0 THEN S
    ELSE SubtreeK(nd, S \cup UNION {Range(nd[x].children) : x \in S}, k - 1)

\* n and every node below it
Subtree(nd, n) == SubtreeK(nd, {n}, NumNodes)

Holders(m, nd, n) == {p \in Nodes : m[p] = "live" /\ n \in Range(nd[p].children)}

Count(s, x) == Cardinality({i \in 1..Len(s) : s[i] = x})

Queried(l, n) == l.op = "world_transformation" /\ l.n = n

\* C1: a world_transformation() query on N that resolves N and its whole
\* ancestor chain (all of them dirty, as after mutations) returns the product
\* of the local transforms root first, N last, also for non-commuting ones.
C1_RootFirstProduct ==
    [][\A n \in Nodes :
          ( /\ Queried(last', n) /\ ~panicked' /\ ~ub'
            /\ Rooted(mem, node, n)
            /\ \A a \in {n} \cup Ancestors(mem, node, n) : ~node[a].up_to_date )
          => last'.ret = RootFirst(mem', node', n)]_vars

\* C2: in every reachable state a node with up_to_date = true caches the
\* composition of the local transforms of its current ancestor chain.
C2_UpToDateMeansCurrentChain ==
    \A n \in Nodes :
        (mem[n] = "live" /\ node[n].up_to_date /\ Rooted(mem, node, n))
        => node[n].world_transform = RootFirst(mem, node, n)

\* C3: add_child(c) on a node c that has a parent panics and changes nothing:
\* every node keeps its children and its parent reference (3D and 2D).
C3_AddChildOnParentedAborts ==
    [][\A p, c \in Nodes :
          (last'.op = "add_child" /\ last'.n = p /\ last'.c = c /\ node[c].parent # None)
          => (panicked' /\ node' = node /\ mem' = mem /\ handle' = handle)]_vars

C3_Witness ==
    /\ last.op = "add_child" /\ panicked
    /\ node[last.c].parent \notin {None, last.n}
    /\ mem[node[last.c].parent] = "live"
    /\ last.c \in Range(node[node[last.c].parent].children)
    /\ last.c \notin Range(node[last.n].children)

\* C4: unlink() on a node with a parent removes exactly that node from the
\* parent's children and clears the node's parent reference, leaving the
\* siblings and the node's subtree as they were; on a root it changes nothing.
C4_UnlinkDetachesExactly ==
    [][\A n \in Nodes :
          (last'.op = "unlink" /\ last'.n = n /\ ~ub')
          => LET p == ParentOf(mem, node, n)
             IN  IF p # None
                 THEN /\ ~panicked'
                      /\ node'[n].parent = None
                      /\ Count(node'[p].children, n) = 0
                      /\ \A x \in Nodes \ {n} :
                            Count(node'[p].children, x) = Count(node[p].children, x)
                      /\ node'[n].children = node[n].children
                      /\ \A x \in Nodes \ {n, p} : node'[x] = node[x]
                 ELSE node[n].parent = None => (node' = node /\ ~panicked')]_vars

\* C5: after unlink() of a node that had a parent, world_transformation() on
\* that node returns its own local transform, resolved before or not.
C5_UnlinkedQueryIsLocal ==
    [][\A n \in Nodes :
          ( /\ last.op = "unlink" /\ last.n = n /\ last.c # None /\ ~panicked
            /\ Queried(last', n) /\ ~panicked' /\ ~ub' )
          => last'.ret = node'[n].local_transform]_vars

\* C6: every node is held in the children of at most one node, at most once,
\* and is_root() is true exactly when no live node holds it as a child.
C6_OneParentAndIsRoot ==
    \A n \in Nodes :
        mem[n] = "live" =>
            /\ Cardinality(Holders(mem, node, n)) <= 1
            /\ \A p \in Nodes : mem[p] = "live" => Count(node[p].children, n) <= 1
            /\ is_root(node, n) <=> (Holders(mem, node, n) = {})

\* C7: immediately after a local mutation of N, N and every descendant of N
\* have up_to_date = false.
C7_MutationDirtiesSubtree ==
    (last.op \in MutOps /\ ~panicked)
    => \A d \in Subtree(node, last.n) : ~node[d].up_to_date

\* C8: a local mutation of A changes no cached world transform or scale; a
\* cached world transform changes only in a query or a render; and a query on a
\* descendant B right after the mutation of A returns the composition with
\* A's new local transform.
C8_LazyRecomputation ==
    [][ /\ (last'.op \in MutOps) =>
              \A x \in Nodes : /\ node'[x].world_transform = node[x].world_transform
                               /\ node'[x].world_scale = node[x].world_scale
        /\ (\E x \in Nodes : node'[x].world_transform # node[x].world_transform)
              => last'.op \in {"world_transformation", "render"}
        /\ \A b \in Nodes :
              ( /\ last.op \in MutOps /\ ~panicked
                /\ Queried(last', b) /\ ~panicked' /\ ~ub'
                /\ Rooted(mem, node, b)
                /\ last.n \in Ancestors(mem, node, b) )
              => last'.ret = RootFirst(mem', node', b) ]_vars

\* C9: a GPUVec is never at once on the GPU, absent from RAM and dirty.
C9_NeverDirtyWithoutSource == ~(is_on_gpu /\ ~is_on_ram /\ trash)

\* C10: unload_from_ram() on a dirty GPUVec holding a CPU array leaves that
\* array's content in the GPU buffer, whether it had been uploaded or not.
C10_UnloadFromRamSyncsFirst ==
    [][(glast' = "unload_from_ram" /\ trash /\ is_some(data))
          => /\ is_some(buffer')
             /\ SubSeq(unwrap(buffer').content, 1, Len(unwrap(data))) = unwrap(data)]_vars

\* C11: len() returns without failing in every reachable state of a GPUVec
\* (in RAM, on the GPU, both or neither, dirty or not), and the count it returns
\* is the element count of the CPU array whenever there is one.
C11_LenAlwaysCorrect ==
    /\ len_of(Fields) >= 0
    /\ is_some(data) => len_of(Fields) = Len(unwrap(data))

\* C12: load_to_gpu() on a dirty GPUVec that has a GPU handle issues a sub-range
\* update and keeps the allocated length when the new element count is smaller
\* than or equal to it, a full upload only when the count is larger; the dirty
\* flag is cleared either way.
C12_SubRangeWhenItFits ==
    [][(glast' = "load_to_gpu" /\ trash /\ is_some(buffer) /\ is_some(data))
          => /\ ~trash'
             /\ IF Len(unwrap(data)) <= unwrap(buffer).len
                THEN /\ calls' = <<"buffer_sub_data">>
                     /\ unwrap(buffer').len = unwrap(buffer).len
                ELSE /\ calls' = <<"buffer_data">>
                     /\ unwrap(buffer').len = Len(unwrap(data))]_vars

\* C13: on a GPUVec that is on the GPU and not dirty, load_to_gpu() and bind()
\* issue no allocation or upload call and change no field; a load_to_gpu()
\* that directly follows a load_to_gpu() never uploads.
C13_CleanLoadIsIdle ==
    [][ /\ (glast' \in {"load_to_gpu", "bind"} /\ is_on_gpu /\ ~trash)
             => /\ calls' = <<>>
                /\ <<trash', len', buffer', data'>> = <<trash, len, buffer, data>>
        /\ (glast = "load_to_gpu" /\ glast' = "load_to_gpu") => calls' = <<>> ]_vars

\* a clean vector with its array still in RAM went through load_to_gpu() or
\* bind() without a call: it was on the GPU and clean before
C13_Witness ==
    /\ glast \in {"load_to_gpu", "bind"}
    /\ is_on_gpu /\ is_on_ram /\ ~trash /\ calls = <<>>
    /\ Len(unwrap(data)) > 0

\* C14: a child whose parent was destroyed (kept alive by an external handle)
\* is queried and unlinked without any access to the destroyed parent, for 3D
\* and 2D nodes alike: the query resolves it as a root, unlink() clears its
\* parent reference.
C14_DeadParentNeverDereferenced ==
    [][\A n \in Nodes :
          ( /\ last'.op \in {"world_transformation", "unlink"} /\ last'.n = n
            /\ node[n].parent # None /\ mem[node[n].parent] = "freed" )
          => /\ ~ub' /\ ~panicked'
             /\ (last'.op = "unlink") => node'[n].parent = None
             /\ (last'.op = "world_transformation" /\ ~node[n].up_to_date)
                   => /\ last'.ret = node[n].local_transform
                      /\ node'[n].up_to_date
                      /\ node'[n].world_transform = node[n].local_transform]_vars

\* C15: a dirty node resolved by the render traversal caches the world
\* transform and world scale that update() would have cached for it on the
\* same tree with the same local values.
C15_RenderResolvesAsUpdate ==
    [][(last'.op = "render" /\ ~panicked')
          => \A x \in Nodes :
                (~node[x].up_to_date /\ node'[x].up_to_date)
                => LET u == update(node, x, {x})
                   IN  /\ u.st = "ok"
                       /\ node'[x].world_transform = u.nd[x].world_transform
                       /\ node'[x].world_scale = u.nd[x].world_scale]_vars

\* The nodes a traversal from n reaches: n if visible, and below a reached
\* node its visible children.
RECURSIVE ReachedK(_, _, _)
ReachedK(nd, n, k) ==
    IF ~nd[n].visible \/ k = 0 THEN {}
    ELSE {n} \cup UNION {ReachedK(nd, nd[n].children[i], k - 1) : i \in 1..Len(nd[n].children)}

Reached(nd, n) == ReachedK(nd, n, NumNodes)

Position(s, x) == CHOOSE i \in 1..Len(s) : s[i] = x

\* C16: one traversal calls Object::render exactly once for every node that has
\* an Object, is visible and has only visible ancestors up to the traversal
\* root, a node before its children; an invisible node and everything below
\* it is neither rendered nor resolved.
C16_TraversalSkipsInvisible ==
    [][\A n \in Nodes :
          (last'.op = "render" /\ last'.n = n /\ ~panicked')
          => /\ Range(drawn') = {x \in Reached(node, n) : node[x].object}
             /\ \A x \in Range(drawn') : Count(drawn', x) = 1
             /\ \A x \in Range(drawn') :
                    \A a \in Ancestors(mem, node, x) \cap Range(drawn') :
                        Position(drawn', a) < Position(drawn', x)
             /\ \A x \in Nodes \ Reached(node, n) : node'[x] = node[x]
             /\ \A x \in Reached(node, n) : node'[x].up_to_date]_vars

\* a traversal rendered a node and then its child, and left a hidden node with
\* an Object below the traversal root alone, still dirty
C16_Witness ==
    /\ last.op = "render" /\ ~panicked
    /\ Len(drawn) >= 2
    /\ node[drawn[2]].parent = drawn[1]
    /\ \E x \in Subtree(node, last.n) :
          ~node[x].visible /\ node[x].object /\ ~node[x].up_to_date /\ x \notin Range(drawn)

\* C17: a render call of the built-in 3D and 2D materials goes inactive ->
\* activate -> surface, wireframe, point blocks -> deactivate -> inactive for
\* every combination of the three flags; once it is inactive again every
\* attribute activate enabled is disabled and the mesh buffers are unbound;
\* and a call that started always reaches its deactivate.
C17_ActivateThenDeactivate ==
    /\ [](mpc = "inactive" => (attribs = {} /\ abuf = "none" /\ ebuf = "none"))
    /\ [][ /\ mpc' # mpc =>
                 <<mpc, mpc'>> \in {<<"inactive", "active">>, <<"active", "surface">>,
                                   <<"surface", "lines">>, <<"lines", "points">>,
                                   <<"points", "inactive">>}
           /\ (mpc = "inactive" /\ mpc' = "active") => attribs' = MaterialAttribs
           /\ (draws' # draws /\ draws' # <<>>) => mpc \in {"active", "surface", "lines"} ]_vars
    /\ (mpc # "inactive") ~> (mpc = "inactive")

\* a render call that drew nothing, and one that drew everything, came back
C17_Witness ==
    /\ mpc = "inactive"
    /\ \/ (mobj.surface /\ mobj.lines /\ mobj.points /\ Len(draws) = 3 /\ ~polymode)
       \/ (~mobj.surface /\ ~mobj.lines /\ ~mobj.points /\ Len(draws) = 0 /\ cull)

Kinds(ds, k) == Cardinality({i \in 1..Len(ds) : ds[i].kind = k})

\* C18: one render call of the 3D object material issues exactly one draw for
\* each enabled feature among surface, wireframe and points and none for a
\* disabled one, so zero to three; surface with a wireframe and no points
\* gives exactly two.
C18_OneDrawPerFeature ==
    [][(~planar /\ mpc = "points" /\ mpc' = "inactive")
          => /\ Kinds(draws', "surface") = (IF mobj.surface THEN 1 ELSE 0)
             /\ Kinds(draws', "wireframe") = (IF mobj.lines THEN 1 ELSE 0)
             /\ Kinds(draws', "points") = (IF mobj.points THEN 1 ELSE 0)
             /\ Len(draws') = Kinds(draws', "surface") + Kinds(draws', "wireframe")
                                + Kinds(draws', "points")
             /\ (mobj.surface /\ mobj.lines /\ ~mobj.points) => Len(draws') = 2]_vars

\* the scenario's object was rendered: a surface draw, then a wireframe draw
C18_Witness ==
    /\ ~planar /\ mpc = "inactive"
    /\ mobj.surface /\ mobj.lines /\ ~mobj.points
    /\ Len(draws) = 2 /\ draws[1].kind = "surface" /\ draws[2].kind = "wireframe"

\* C19: in the 3D object material every wireframe or point draw is issued with
\* back-face culling disabled, and every surface draw with culling equal to
\* the object's own flag, whatever was rendered before.
C19_CullingPerDraw ==
    ~planar =>
        \A i \in 1..Len(draws) :
            IF draws[i].kind = "surface" THEN draws[i].cull = mobj.cull
            ELSE ~draws[i].cull

\* a culled surface is being drawn while the context still has culling off,
\* as the previous object's overlay left it
C19_Witness ==
    /\ ~planar /\ mobj.cull /\ mobj.lines
    /\ mpc = "lines" /\ Len(draws) = 2
    /\ draws[1].kind = "surface" /\ draws[1].cull
    /\ draws[2].kind = "wireframe" /\ ~draws[2].cull /\ ~cull

Events(l, e) == {i \in 1..Len(l) : l[i].ev = e}

\* C20: in a frame the line and the point renderer each draw what was
\* requested since their previous flush and clear their buffer exactly once,
\* and that flush comes after the scene-graph traversal and before the swap.
C20_OverlayFlushAfterScene ==
    [][(fpc = "end" /\ fpc' = "idle")
          => /\ lines' = 0 /\ points' = 0
             /\ Cardinality(Events(flog', "lines")) <= 1
             /\ Cardinality(Events(flog', "points")) <= 1
             /\ \A i \in Events(flog', "lines") \cup Events(flog', "points") :
                   /\ \A j \in Events(flog', "scene") : j < i
                   /\ \A j \in Events(flog', "swap") : i < j]_vars

\* the positions of the events e of pass p in the frame log l
PassEvents(l, e, p) == {i \in 1..Len(l) : l[i].ev = e /\ l[i].pass = p}

\* the frame whose log is l rendered every pass once, in order, and swapped
CompleteFrame(l) ==
    /\ Cardinality(Events(l, "scene")) = npasses
    /\ \A p \in 0..(npasses - 1) :
          /\ Cardinality(PassEvents(l, "scene", p)) = 1
          /\ Cardinality(PassEvents(l, "start_pass", p)) = 1
          /\ \A i \in PassEvents(l, "start_pass", p), j \in PassEvents(l, "scene", p) : i < j
          /\ \A q \in 0..(p - 1) :
                \A i \in PassEvents(l, "scene", q), j \in PassEvents(l, "start_pass", p) : i < j
    /\ Cardinality(Events(l, "render_complete")) = 1
    /\ \A i \in Events(l, "scene"), j \in Events(l, "render_complete") : i < j
    /\ Events(l, "swap") = {Len(l)}

\* C21: a frame traverses the scene graph exactly once per camera pass, passes
\* 0 .. num_passes()-1 in increasing order, start_pass(p) before the traversal
\* of pass p, render_complete after the last pass, the swap after all of them.
C21_OneTraversalPerPass ==
    [][(fpc' = "idle" /\ flog' # flog) => CompleteFrame(flog')]_vars

\* a frame of the two-pass camera is over
C21_Witness ==
    /\ fpc = "idle" /\ npasses = 2
    /\ Cardinality(Events(flog, "scene")) = 2
    /\ Events(flog, "swap") = {Len(flog)}

\* C22: the frame that processes a close event still renders every pass and
\* swaps before the render call returns, and it returns false; the state's
\* step does not run after it; and every later frame returns false as well.
C22_CloseFinishesTheFrame ==
    [][ /\ (fpc' = "idle" /\ flog' # flog /\ (Events(flog', "close") # {} \/ should_close))
             => /\ CompleteFrame(flog')
                /\ fret' = FALSE
                /\ ~stepped'
        /\ should_close => should_close' ]_vars

\* the frame that processed the close event is over: it swapped and returned
\* false, and the state was not stepped
C22_Witness ==
    /\ fpc = "idle" /\ with_state /\ npasses = 2
    /\ Events(flog, "close") # {}
    /\ Events(flog, "swap") = {Len(flog)}
    /\ fret = FALSE /\ ~stepped

\* the resource operation the step performed, if any
ResOp(o) == rops' # rops /\ rlast'.op = o

\* the objects whose Mesh is that of object i
Sharing(os, i) == {j \in 1..Len(os) : os[j].mesh = os[i].mesh}

\* C23: with two Objects on one Mesh, read_vertices through one observes
\* exactly the vector a modify_vertices callback left through the other;
\* modify_vertices marks the shared coords dirty, and the next bind of the
\* dirty coords uploads the vector they hold.
C23_SharedMeshAliasing ==
    [][ /\ ResOp("modify_vertices") =>
              /\ coords'[objs[rlast'.i].mesh].trash
              /\ \A j \in Sharing(objs, rlast'.i) : vertices(coords', objs', j) = Some(rlast'.arg)
        /\ (rlast.op = "modify_vertices" /\ ResOp("read_vertices")
                /\ rlast'.i \in Sharing(objs, rlast.i)) =>
              rlast'.ret = Some(rlast.arg)
        /\ (ResOp("bind") /\ coords[objs[rlast'.i].mesh].trash) =>
              LET d == unwrap(coords[objs[rlast'.i].mesh].data)
                  g == coords'[objs[rlast'.i].mesh]
              IN  /\ g.calls # <<>>
                  /\ ~g.trash
                  /\ SubSeq(unwrap(g.buffer).content, 1, Len(d)) = d ]_vars

\* two nodes on one Mesh: the vertices were changed through the first, bound
\* through either, and read through the second
C23_Witness ==
    /\ Len(objs) = 2 /\ objs[1].mesh = objs[2].mesh
    /\ rlast.op = "read_vertices" /\ rlast.i = 2
    /\ rlast.ret \in {Some(w) : w \in VertexEdits}
    /\ ~coords[objs[2].mesh].trash
    /\ coords[objs[2].mesh].buffer = Some([len |-> Len(unwrap(rlast.ret)), content |-> unwrap(rlast.ret)])

Convenience == BuiltinGeoms \cup {"add_capsule", "add_quad", "add_quad_with_vertices"}

\* C24: the Object a convenience constructor builds references a Mesh of the
\* registry, the same Mesh as every Object the same constructor built before,
\* with the default material and the default texture.
C24_ConstructorsShareRegistryMesh ==
    [][ (Len(objs') = Len(objs) + 1 /\ objs'[Len(objs')].ctor \in Convenience) =>
          LET o == objs'[Len(objs')]
          IN  /\ \E name \in GeomNames : meshes[name] = o.mesh
              /\ \A j \in 1..Len(objs) : objs[j].ctor = o.ctor => objs[j].mesh = o.mesh
              /\ o.material = get_default_material
              /\ o.texture = get_default_texture ]_vars

\* the name the step looked up was not registered
Miss ==
    \/ ResOp("add_geom_with_name") /\ meshes[rlast'.arg] = NoMesh
    \/ ResOp("set_material_with_name") /\ rlast'.arg \notin materials
    \/ ResOp("set_texture_with_name") /\ rlast'.arg \notin textures

\* C25: a lookup of an unregistered user name returns an absent result, does
\* not abort, and leaves every Object's material and texture as they were.
C25_MissIsAbsentNotFatal ==
    [][ Miss => (rlast'.ret = "none" /\ ~panicked' /\ objs' = objs) ]_vars

\* C26: inverse_world_transformation() resolves the node and returns the
\* inverse of its world transform: composed with what world_transformation()
\* returns for the node, it gives the identity.
C26_InverseOfWorld ==
    [][\A n \in Nodes :
          (last'.op = "inverse_world_transformation" /\ last'.n = n /\ ~panicked')
          => /\ node'[n].up_to_date
             /\ Mul(last'.ret, node'[n].world_transform) = One ]_vars

\* C27: world_transformation() on n writes the cached fields of n and of n's
\* ancestors only: every other field of every node, and every field of the
\* nodes that are not n or an ancestor of n, is as before.
C27_QueryFrame ==
    [][\A n \in Nodes :
          (last'.op = "world_transformation" /\ last'.n = n)
          => \A m \in Nodes :
                /\ [node'[m] EXCEPT !.world_transform = node[m].world_transform,
                                    !.world_scale = node[m].world_scale,
                                    !.up_to_date = node[m].up_to_date] = node[m]
                /\ m \notin ({n} \cup Ancestors(mem, node, n)) => node'[m] = node[m] ]_vars

\* a query resolved a node and its parent and left the node's dirty child alone
C27_Witness ==
    /\ last.op = "world_transformation" /\ ~panicked
    /\ ParentOf(mem, node, last.n) # None
    /\ node[last.n].up_to_date /\ node[ParentOf(mem, node, last.n)].up_to_date
    /\ \E c \in Range(node[last.n].children) : ~node[c].up_to_date

\* C28: append_*(t) leaves t * old and prepend_to_local_*(t) leaves old * t in
\* local_transform, local_scale is untouched and the node is dirty; so the
\* two results differ exactly when t and old do not commute.
C28_AppendLeftPrependRight ==
    [][\A n \in Nodes :
          (last'.op \in {"append_transformation", "prepend_to_local_transformation"}
             /\ last'.n = n /\ ~panicked')
          => LET old == node[n].local_transform
                 t == last'.arg
             IN  /\ last'.op = "append_transformation"
                       => node'[n].local_transform = Mul(t, old)
                 /\ last'.op = "prepend_to_local_transformation"
                       => node'[n].local_transform = Mul(old, t)
                 /\ node'[n].local_scale = node[n].local_scale
                 /\ ~node'[n].up_to_date ]_vars

\* a rotation was appended to a translation: the result is t * old, which is
\* not old * t
C28_Witness ==
    /\ last.op = "append_transformation" /\ ~panicked
    /\ last.arg = Iso(1, <<0, 0, 0>>)
    /\ node[last.n].local_transform = Mul(Iso(1, <<0, 0, 0>>), Iso(0, <<1, 0, 0>>))
    /\ node[last.n].local_transform # Mul(Iso(0, <<1, 0, 0>>), Iso(1, <<0, 0, 0>>))

\* C29: one local mutation of n invokes invalidate on a descendant at most
\* once and only on one that was up to date; with all of n's children dirty
\* it invokes invalidate on no descendant.
C29_InvalidateOncePerCleanNode ==
    [][\A n \in Nodes :
          (last'.op \in MutOps /\ last'.n = n)
          => LET inv == last'.inv
             IN  /\ Len(inv) >= 1 /\ inv[1] = n
                 /\ \A i \in 2..Len(inv) :
                       /\ node[inv[i]].up_to_date
                       /\ \A j \in 2..Len(inv) : inv[j] = inv[i] => j = i
                 /\ (\A c \in Range(node[n].children) : ~node[c].up_to_date)
                       => Len(inv) = 1 ]_vars

\* a mutation invalidated a clean child and skipped a dirty one
C29_Witness ==
    /\ last.op \in MutOps /\ ~panicked
    /\ Len(node[last.n].children) = 2
    /\ Len(last.inv) = 2

RECURSIVE ChainScaleK(_, _, _, _)
ChainScaleK(m, nd, n, k) ==
    IF k = 0 \/ ParentOf(m, nd, n) = None THEN nd[n].local_scale
    ELSE component_mul(ChainScaleK(m, nd, ParentOf(m, nd, n), k - 1), nd[n].local_scale)

\* the product of the local scales of n and of its ancestors
ChainScale(m, nd, n) == ChainScaleK(m, nd, n, NumNodes)

\* C30: the cached world_scale of an up-to-date node is the component-wise
\* product of the local scales of the node and of all its ancestors.
C30_WorldScaleIsChainProduct ==
    \A n \in Nodes :
        (mem[n] = "live" /\ node[n].up_to_date /\ Rooted(mem, node, n))
        => node[n].world_scale = ChainScale(mem, node, n)

\* the nodes strictly below n in the children relation
Descendants(nd, n) == UNION {Subtree(nd, c) : c \in Range(nd[n].children)}

\* C31: the parent/children relation is a forest: no live node is its own
\* ancestor, and none is found among its own descendants.
C31_ParentRelationIsForest ==
    \A n \in Nodes :
        mem[n] = "live" => (n \notin Ancestors(mem, node, n) /\ n \notin Descendants(node, n))

\* C32: a traversal whose callback queries or unlinks the visited node meets
\* no borrow conflict (on a forest, where the traversal itself terminates).
C32_CallbackMeetsNoBorrowConflict ==
    [][ ( /\ last'.op \in {"apply_to_scene_nodes", "apply_to_scene_nodes_mut"}
          /\ nops' # nops
          /\ \A n \in Nodes : Rooted(mem, node, n) )
        => ~panicked' ]_vars

\* C33: modify_vertices on a node applies the callback exactly once to the
\* coordinate buffer of every Mesh reachable below it, whether one Object or
\* several reference that Mesh.
C33_CallbackOncePerBuffer ==
    [][ ResOp("node_modify_vertices") =>
          \A m \in {objs[i].mesh : i \in 1..Len(objs)} :
              coords'[m].data = Some(vertex_callback(rlast'.arg, unwrap(coords[m].data))) ]_vars

\* C35: the overlay lines and points requested before a frame are drawn in
\* every camera pass of the frame, passes 0 and 1 of the two-pass camera.
C35_OverlayInEveryPass ==
    [][(fpc = "end" /\ fpc' = "idle")
          => \A e \in {"lines", "points"} :
                Events(flog', e) # {}
                   => \A p \in 0..(npasses - 1) : PassEvents(flog', e, p) # {}]_vars

\* the events the step passed to handle_event
NewlyHandled == {handled'[i] : i \in (Len(handled) + 1)..Len(handled')}

\* how many of the step's camera calls gave event e to receiver c
Deliveries(e, c) ==
    Cardinality({i \in (Len(delivered) + 1)..Len(delivered') :
                    delivered'[i].ev = e /\ delivered'[i].cam = c})

\* C34: every event a frame processes goes exactly once to the 3D camera of
\* the frame (the supplied one, else the window's own) and exactly once to
\* the planar camera of the frame (the supplied one, else the window's own).
C34_EventOncePerCamera ==
    [][\A e \in NewlyHandled :
          /\ Deliveries(e, IF cams'.camera THEN "camera" ELSE "self.camera") = 1
          /\ Deliveries(e, IF cams'.planar_camera THEN "planar_camera"
                           ELSE "self.planar_camera") = 1 ]_vars

C37_EdgesBuiltOnce ==
    [][ebinds' # ebinds
          => /\ ebuilt' = 1
             /\ IF medges.some THEN medges' = medges
                ELSE medges' = [some |-> TRUE, data |-> EdgesOf(mfaces)] ]_vars

\* bind_edges ran three times, with a change of the faces after the build
C37_Witness ==
    /\ ebinds = MaxBinds /\ ebuilt = 1
    /\ medges.some /\ medges.data # EdgesOf(mfaces)

\* C38: the edge buffer bind_edges binds holds the edges of the mesh's
\* current faces, and the wireframe fallback never draws more indices
\* (num_pts() * 2) than the edge buffer stores.
C38_EdgesFollowFaces ==
    [][ebinds' # ebinds
          => /\ medges'.data = EdgesOf(mfaces')
             /\ edraw'.count <= edraw'.stored ]_vars

\* the unit normal of face f of the mesh, or the zero sum of a flat face
FaceNormal(f) ==
    LET cross == Cross(Sub(mcoords[f[2] + 1], mcoords[f[1] + 1]),
                       Sub(mcoords[f[3] + 1], mcoords[f[1] + 1]))
    IN  IF cross # Zero3 THEN normalize(cross) ELSE ZeroSum

\* the mesh is a flat quad: two faces of non-zero area with one common
\* normal that share exactly two vertices and cover the four vertices
FlatQuad ==
    /\ Len(mfaces) = 2
    /\ FaceNormal(mfaces[1]) # ZeroSum
    /\ FaceNormal(mfaces[1]) = FaceNormal(mfaces[2])
    /\ Cardinality({mfaces[1][k] : k \in 1..3} \cap {mfaces[2][k] : k \in 1..3}) = 2
    /\ {mfaces[1][k] : k \in 1..3} \cup {mfaces[2][k] : k \in 1..3} = 0..3

\* the averaged normal a is the unit vector n
IsNormal(a, n) ==
    /\ a.kind = "finite"
    /\ \A s \in NormSq : a.sum[s] = <<a.by * n[s][1], a.by * n[s][2], a.by * n[s][3]>>

\* C39: compute_normals on a flat quad gives each of the four vertices the
\* common face normal: sum of two face normals over 2 at the shared vertices,
\* the single face normal over 1 at the two others.
C39_FlatQuadNormals ==
    (FlatQuad /\ mnormals # <<>>)
       => \A v \in 1..4 :
             /\ IsNormal(mnormals[v], FaceNormal(mfaces[1]))
             /\ mnormals[v].by = Cardinality({i \in 1..2 : (v - 1) \in {mfaces[i][k] : k \in 1..3}})

\* the normals of a flat quad were computed; two vertices have two faces
C39_Witness ==
    /\ FlatQuad /\ mnormals # <<>>
    /\ Cardinality({v \in 1..4 : mnormals[v].kind = "finite" /\ mnormals[v].by = 2}) = 2
    /\ Cardinality({v \in 1..4 : mnormals[v].kind = "finite" /\ mnormals[v].by = 1}) = 2

\* C40: compute_normals gives every vertex a well-defined normal: a face of
\* zero area adds the zero vector, and no vertex is divided by a count of
\* zero, a vertex no face references included.
C40_NormalsWellDefined ==
    \A v \in 1..Len(mnormals) : mnormals[v].kind = "finite"

====
